---------------------------- MODULE Spec2Model ----------------------------
(***************************************************************************)
(* Model of ocr-service: the document-ingestion core (src/parsers.py),     *)
(* its HTTP caller extract_text (src/app/routers/v1/ocr.py), the           *)
(* authentication dependencies with the endpoints behind them              *)
(* (src/app/core/dependencies.py, src/app/routers/v1), the tokens          *)
(* (src/app/core/security.py) and the rate-limit middleware                *)
(* (src/app/middleware/rate_limit.py).                                     *)
(*                                                                         *)
(* Each part has its own specification over its own variables; the other   *)
(* parts' variables stay at their idle values.                             *)
(*                                                                         *)
(* Text is a sequence of one-character strings, so that the normalizer,    *)
(* os.path.splitext and str.lower are computed character by character.     *)
(***************************************************************************)
EXTENDS Naturals, Sequences, FiniteSets, Bags, TLC

VARIABLES
    \* --- one call of process_document and its caller (Spec) ---
    pc,             \* "idle" | "getsize" | "select" | "invoke" | "clean" |
                    \* "done" | "responded"
    src,            \* the file behind file_path
    mime_type,      \* local of process_document
    file_extension, \* local of process_document
    parser,         \* local of process_document; "None" when not selected
    raw_text,       \* local of process_document
    outcome,        \* what the call returned or raised
    calls,          \* how often this call sniffed, looked up, parsed, cleaned
    status,         \* HTTP status answered by extract_text, 0 before
    prev,           \* summary of the previous finished call
    \* --- the normalizer applied to arbitrary raw text (SpecNorm) ---
    npc,            \* "raw" | "once" | "twice"
    text,           \* the raw string handed to clean_text
    norm1,          \* clean_text(text)
    norm2,          \* clean_text(clean_text(text))
    \* --- one request to POST /ocr/extract at a time (SpecExtract) ---
    hpc,            \* "idle" | "read" | "core" | "except" | "finally" | "ended"
    upload,         \* the uploaded file: filename, size in bytes, type of bytes
    req,            \* number of the request being served, 0 before the first
    temp_file_path, \* local of extract_text: "None" or the staged file's path
    disk,           \* temporary files that exist, named by request number
    exc,            \* exception in flight in extract_text outside the core
    db_faults,      \* commits of this request that raised
    usage_logs,     \* committed rows of usage_logs
    response,       \* what the client is answered
    \* --- concurrent calls of process_document (SpecConc) ---
    cpc,            \* per call: "idle" | "getsize" | "select" | "invoke" |
                    \* "clean" | "done"
    cfile,          \* per call: the file behind its file_path argument
    frames,         \* per stack frame: mime_type, file_extension, parser,
                    \* raw_text
    cout,           \* per call: what it returned or raised
    overlapped,     \* some call stepped while another was in mid-flight
    \* --- parse_pdf on one document (SpecPdf) ---
    ppc,            \* "idle" | "pages" | "done"
    pdf,            \* pdf.pages: per page its text layer and what OCR reads
    pg,             \* number of the page the loop is at
    pdf_text,       \* local text of parse_pdf
    ocr_calls,      \* the pages handed to pytesseract, in call order
    pdf_out,        \* what parse_pdf returned or raised
    \* --- parse_xlsx on one workbook (SpecXlsx) ---
    xpc,            \* "idle" | "loaded" | "done"
    workbook,       \* workbook.worksheets: sheets of rows of cells
    xlsx_out,       \* what parse_xlsx returned or raised
    \* --- the dependencies and handlers of the protected endpoints (SpecAuth) ---
    apc,            \* "idle" | "token" | "key" | "user" | "handler" | "ended"
    areq,           \* the request: endpoint, credentials, target, body
    served,         \* requests received so far
    users,          \* the users table, by user id
    api_keys,       \* the api_keys table
    user_from_token, \* result of get_current_user_from_token, "None" before
    user_from_key,  \* result of get_current_user_from_api_key, "None" before
    rows_read,      \* ids of the users rows this request has selected
    handled,        \* the endpoint function that ran, "None" if none did
    aresp,          \* what the client is answered
    before,         \* the tables and the disk when the request arrived
    extracted_with, \* per extract request that passed the size check, in
                    \* order: the API key it was authenticated with, or "none"
    \* --- concurrent requests through RateLimitMiddleware (SpecRate) ---
    now,            \* int(time.time() // 60)
    redis_store,    \* the counters in Redis, by client and minute; 0 if absent
    ttl,            \* the counters that were given an expiry
    earlier,        \* per counter: requests forwarded before the ones followed
    forwarded,      \* per window: followed requests forwarded, and those of
                    \* them forwarded after the check
    rl,             \* the requests in dispatch, a bag: the position, the locals
                    \* and the answer of each
    \* --- one token from its making to its use (SpecToken) ---
    tclock,         \* datetime.utcnow(), in minutes
    waits,          \* how often the clock was moved
    tdata,          \* the data argument of create_access_token and
                    \* create_refresh_token
    token,          \* the token a request presents
    made_by,        \* who made the token
    tout,           \* what the presented token was decoded to and answered
    \* --- concurrent requests to POST /auth/register (SpecRegister) ---
    reg             \* per request: its position, its body and its answer

nvars == <<npc, text, norm1, norm2>>
dvars == <<pc, src, mime_type, file_extension, parser, raw_text, outcome,
           calls, status, prev>>
hvars == <<hpc, upload, req, temp_file_path, disk, exc, db_faults, usage_logs,
           response>>
cvars == <<cpc, cfile, frames, cout, overlapped>>
pvars == <<ppc, pdf, pg, pdf_text, ocr_calls, pdf_out>>
wvars == <<xpc, workbook, xlsx_out>>
avars == <<apc, areq, served, users, api_keys, user_from_token, user_from_key,
           rows_read, handled, aresp, before, extracted_with>>
rvars == <<now, redis_store, ttl, earlier, forwarded, rl>>
tvars == <<tclock, waits, tdata, token, made_by, tout>>
gvars == <<reg>>
\* everything of the middleware, the tokens and concurrent registration
mvars == <<rvars, tvars, gvars>>
\* everything outside the dispatcher and the normalizer
xvars == <<hvars, cvars, pvars, wvars, avars, mvars>>
\* everything outside the dispatcher and extract_text
hrest == <<nvars, cvars, pvars, wvars, avars, mvars>>
\* everything outside the concurrent calls
crest == <<dvars, nvars, hvars, pvars, wvars, avars, mvars>>
\* everything outside parse_pdf
prest == <<dvars, nvars, hvars, cvars, wvars, avars, mvars>>
\* everything outside parse_xlsx
wrest == <<dvars, nvars, hvars, cvars, pvars, avars, mvars>>
\* everything the dependencies and all the handlers leave alone
erest == <<dvars, nvars, cvars, pvars, wvars, hpc, upload, req, temp_file_path,
           exc, db_faults, response, mvars>>
\* everything the dependencies and the handlers other than extract_text leave
\* alone
arest == <<erest, extracted_with>>
\* everything outside the rate-limit middleware
rrest == <<dvars, nvars, hvars, cvars, pvars, wvars, avars, tvars, gvars>>
\* everything outside the tokens
trest == <<dvars, nvars, hvars, cvars, pvars, wvars, avars, rvars, gvars>>
\* everything outside the users table and the requests to register
grest == <<dvars, nvars, hvars, cvars, pvars, wvars, rvars, tvars, apc, areq,
           served, api_keys, user_from_token, user_from_key, rows_read,
           handled, aresp, before, extracted_with>>
vars == <<dvars, nvars, xvars>>

-----------------------------------------------------------------------------
(* Bounds *)

\* longest raw string enumerated for the normalizer
MaxLen == 5

\* longest enumerated raw text a parser returns
MaxOut == 1

\* requests served one after the other by the extract endpoint
MaxRequests == 2

\* calls of process_document running at the same time
MaxCalls == 2

\* pages of the longest PDF
MaxPages == 2

\* rows of the longest worksheet
MaxRows == 2

\* requests received one after the other by the protected endpoints
MaxServed == 2

\* requests inside the rate-limit middleware at the same time
MaxInFlight == 2

\* the last minute the clock reaches
MaxMinute == 1

\* how often the clock is moved between the making and the use of a token
MaxWaits == 1

\* requests inside register at the same time
MaxRegs == 2

-----------------------------------------------------------------------------
(* Text: Python str operations used by clean_text *)

\* characters of the enumerated raw strings: a letter, a space, a newline
Alphabet == {"a", " ", "\n"}

\* str.strip() with no argument strips ASCII whitespace
Whitespace == {" ", "\t", "\n", "\r", "\f"}

\* the example of the spec: "a\n\n\nb \n \nc"
ExampleRaw == <<"a", "\n", "\n", "\n", "b", " ", "\n", " ", "\n", "c">>
\* "a\nb\nc"
ExampleClean == <<"a", "\n", "b", "\n", "c">>

RawStrings == UNION {[1..n -> Alphabet] : n \in 0..MaxLen} \cup {ExampleRaw}

\* re.sub(r'\n+', '\n', text): every maximal run of newlines becomes one newline
RECURSIVE CollapseNewlines(_)
CollapseNewlines(s) ==
    IF Len(s) < 2 THEN s
    ELSE IF s[1] = "\n" /\ s[2] = "\n" THEN CollapseNewlines(Tail(s))
    ELSE <<s[1]>> \o CollapseNewlines(Tail(s))

\* text.split('\n'): k newlines give k+1 pieces, empty pieces kept
RECURSIVE SplitLines(_)
SplitLines(s) ==
    IF \A i \in 1..Len(s) : s[i] # "\n" THEN <<s>>
    ELSE LET i == CHOOSE j \in 1..Len(s) :
                      s[j] = "\n" /\ \A k \in 1..(j-1) : s[k] # "\n"
         IN  <<SubSeq(s, 1, i-1)>> \o SplitLines(SubSeq(s, i+1, Len(s)))

\* "\n".join(lines)
RECURSIVE JoinLines(_)
JoinLines(lines) ==
    IF Len(lines) = 0 THEN <<>>
    ELSE IF Len(lines) = 1 THEN lines[1]
    ELSE lines[1] \o <<"\n">> \o JoinLines(Tail(lines))

RECURSIVE LStrip(_)
LStrip(s) == IF Len(s) > 0 /\ s[1] \in Whitespace THEN LStrip(Tail(s)) ELSE s

RECURSIVE RStrip(_)
RStrip(s) ==
    IF Len(s) > 0 /\ s[Len(s)] \in Whitespace
    THEN RStrip(SubSeq(s, 1, Len(s)-1)) ELSE s

\* str.strip()
Strip(s) == RStrip(LStrip(s))

\* line.strip() for line in text.split('\n')
StripEach(lines) == [i \in DOMAIN lines |-> Strip(lines[i])]

\* clean_text: collapse newline runs, strip every line, strip the whole
clean_text(raw) == Strip(JoinLines(StripEach(SplitLines(CollapseNewlines(raw)))))

-----------------------------------------------------------------------------
(* Paths: os.path.splitext(file_path)[1].lower() *)

\* the paths handed to process_document
PathCsv      == <<"a", ".", "c", "s", "v">>
PathMd       == <<"a", ".", "m", "d">>
PathUpperCsv == <<"a", ".", "C", "S", "V">>
PathPdf      == <<"a", ".", "p", "d", "f">>
PathNoExt    == <<"a">>
PathDotfile  == <<".", "c", "s", "v">>
PathDirDot   == <<"d", ".", "m", "d", "/", "a">>

Paths == {PathCsv, PathMd, PathUpperCsv, PathPdf, PathNoExt, PathDotfile,
          PathDirDot}

\* p.rfind(c): the last index of c in p, 0 when absent
RFind(p, c) ==
    IF \E i \in 1..Len(p) : p[i] = c
    THEN CHOOSE i \in 1..Len(p) : p[i] = c /\ \A j \in (i+1)..Len(p) : p[j] # c
    ELSE 0

\* os.path.splitext(p)[1]: from the last dot of the last path component,
\* unless that component has nothing but dots before it
SplitExt(p) ==
    LET sepIndex == RFind(p, "/")
        dotIndex == RFind(p, ".")
    IN  IF dotIndex > sepIndex
           /\ \E k \in (sepIndex+1)..(dotIndex-1) : p[k] # "."
        THEN SubSeq(p, dotIndex, Len(p))
        ELSE <<>>

\* str.lower() on one character
LowerChar(c) ==
    CASE c = "C" -> "c" [] c = "S" -> "s" [] c = "V" -> "v"
      [] c = "M" -> "m" [] c = "D" -> "d" [] OTHER -> c

\* str.lower()
Lower(s) == [i \in DOMAIN s |-> LowerChar(s[i])]

ExtCsv == <<".", "c", "s", "v">>
ExtMd  == <<".", "m", "d">>

-----------------------------------------------------------------------------
(* The dispatch table and the parsers *)

\* the keys of parser_dispatcher_mime
RegisteredTypes == {
    "application/pdf", "image/jpeg", "image/png", "image/tiff",
    "application/vnd.openxmlformats-officedocument.wordprocessingml.document",
    "application/vnd.openxmlformats-officedocument.spreadsheetml.sheet",
    "application/vnd.openxmlformats-officedocument.presentationml.presentation",
    "text/plain", "text/csv", "application/vnd.oasis.opendocument.text",
    "application/rtf", "text/rtf", "text/html", "application/epub+zip",
    "text/markdown"}

\* types libmagic reports that the table does not hold
UnregisteredTypes == {"application/zip", "application/octet-stream"}

\* what magic.from_file(file_path, mime=True) can answer for a non-empty file
SniffTypes == RegisteredTypes \cup UnregisteredTypes

parser_dispatcher_mime ==
    [m \in RegisteredTypes |->
        CASE m = "application/pdf" -> "parse_pdf"
          [] m \in {"image/jpeg", "image/png", "image/tiff"} -> "parse_image"
          [] m = "application/vnd.openxmlformats-officedocument.wordprocessingml.document"
                -> "parse_docx"
          [] m = "application/vnd.openxmlformats-officedocument.spreadsheetml.sheet"
                -> "parse_xlsx"
          [] m = "application/vnd.openxmlformats-officedocument.presentationml.presentation"
                -> "parse_pptx"
          [] m = "text/plain" -> "parse_text"
          [] m = "text/csv" -> "parse_csv"
          [] m = "application/vnd.oasis.opendocument.text" -> "parse_odt"
          [] m \in {"application/rtf", "text/rtf"} -> "parse_rtf"
          [] m = "text/html" -> "parse_html"
          [] m = "application/epub+zip" -> "parse_epub"
          [] m = "text/markdown" -> "parse_markdown"]

Parsers == {parser_dispatcher_mime[m] : m \in RegisteredTypes}

\* the format name in each parser's "Error parsing <format>: " message
ParserLabel(p) ==
    CASE p = "parse_pdf" -> "PDF" [] p = "parse_docx" -> "DOCX"
      [] p = "parse_xlsx" -> "XLSX" [] p = "parse_pptx" -> "PPTX"
      [] p = "parse_text" -> "text file" [] p = "parse_csv" -> "CSV"
      [] p = "parse_odt" -> "ODT" [] p = "parse_rtf" -> "RTF"
      [] p = "parse_html" -> "HTML" [] p = "parse_image" -> "image"
      [] p = "parse_epub" -> "EPUB" [] p = "parse_markdown" -> "Markdown"

\* the parsers that call pytesseract
OcrParsers == {"parse_pdf", "parse_image"}

\* the parsers that open the file as text
TextParsers == {"parse_text", "parse_csv", "parse_rtf", "parse_html",
                "parse_markdown"}

\* what can be raised inside the try block of parser p: a library rejecting
\* the file's structure, a decode error, an I/O error, a missing OCR engine
CausesOf(p) ==
    {"OSError"}
    \cup (IF p \in TextParsers THEN {"UnicodeDecodeError"} ELSE {"CorruptStructure"})
    \cup (IF p \in OcrParsers THEN {"TesseractNotFoundError"} ELSE {})

\* the raw texts a parser returns for well-formed files
ParserOutputs ==
    UNION {[1..n -> Alphabet] : n \in 0..MaxOut}
    \cup {<<" ", "a", "\n">>, ExampleRaw}

\* mutant of Caught: the handler is "except OSError", so a decode error or a
\* library's own error escapes
CaughtOnlyOSError(p, cause) == cause \in {"OSError", "TesseractNotFoundError"}

\* "except Exception as e" around the whole body of parser p: every cause
\* is an Exception
Caught(p, cause) == TRUE

\* one run of parser p: ret is what happens inside its try block
ParserRun(p, ret) ==
    IF ret.ok THEN [kind |-> "return", raw |-> ret.raw]
    ELSE IF Caught(p, ret.cause)
         THEN [kind |-> "ParsingError",
               msg |-> <<"Error parsing ", ParserLabel(p), ": ", ret.cause>>]
         ELSE [kind |-> ret.cause, msg |-> <<ret.cause>>]

\* what can happen inside parser p
ParserBehaviours(p) ==
    {[ok |-> TRUE, raw |-> r, cause |-> "none"] : r \in ParserOutputs}
    \cup {[ok |-> FALSE, raw |-> <<>>, cause |-> c] : c \in CausesOf(p)}

\* mutant of SelectParser: the extension overrides any sniffed type
SelectParserByExtension(mime, ext) ==
    IF ext = ExtCsv THEN [parser |-> "parse_csv", mime_type |-> "text/csv"]
    ELSE IF ext = ExtMd
    THEN [parser |-> "parse_markdown", mime_type |-> "text/markdown"]
    ELSE IF mime \in DOMAIN parser_dispatcher_mime
    THEN [parser |-> parser_dispatcher_mime[mime], mime_type |-> mime]
    ELSE [parser |-> "None", mime_type |-> mime]

\* mutant of SelectParser: the .md branch of the fallback is missing
SelectParserNoMarkdown(mime, ext) ==
    IF mime = "text/plain"
    THEN IF ext = ExtCsv
         THEN [parser |-> "parse_csv", mime_type |-> "text/csv"]
         ELSE [parser |-> "parse_text", mime_type |-> mime]
    ELSE IF mime \in DOMAIN parser_dispatcher_mime
    THEN [parser |-> parser_dispatcher_mime[mime], mime_type |-> mime]
    ELSE [parser |-> "None", mime_type |-> mime]

\* mutant of SelectParser: the table lookup forgets the RTF alias
SelectParserNoTextRtf(mime, ext) ==
    IF mime = "text/plain"
    THEN IF ext = ExtCsv
         THEN [parser |-> "parse_csv", mime_type |-> "text/csv"]
         ELSE IF ext = ExtMd
         THEN [parser |-> "parse_markdown", mime_type |-> "text/markdown"]
         ELSE [parser |-> "parse_text", mime_type |-> mime]
    ELSE IF mime \in DOMAIN parser_dispatcher_mime /\ mime # "text/rtf"
    THEN [parser |-> parser_dispatcher_mime[mime], mime_type |-> mime]
    ELSE [parser |-> "None", mime_type |-> mime]

\* mutant of SelectParser: a type without a parser is read as plain text
SelectParserFallbackText(mime, ext) ==
    IF mime = "text/plain"
    THEN IF ext = ExtCsv
         THEN [parser |-> "parse_csv", mime_type |-> "text/csv"]
         ELSE IF ext = ExtMd
         THEN [parser |-> "parse_markdown", mime_type |-> "text/markdown"]
         ELSE [parser |-> "parse_text", mime_type |-> mime]
    ELSE IF mime \in DOMAIN parser_dispatcher_mime
    THEN [parser |-> parser_dispatcher_mime[mime], mime_type |-> mime]
    ELSE [parser |-> "parse_text", mime_type |-> mime]

\* parser = None, then the fallback for ambiguous text types and the lookup
SelectParser(mime, ext) ==
    IF mime = "text/plain"
    THEN IF ext = ExtCsv
         THEN [parser |-> "parse_csv", mime_type |-> "text/csv"]
         ELSE IF ext = ExtMd
         THEN [parser |-> "parse_markdown", mime_type |-> "text/markdown"]
         ELSE [parser |-> "parse_text", mime_type |-> mime]
    ELSE IF mime \in DOMAIN parser_dispatcher_mime
    THEN [parser |-> parser_dispatcher_mime[mime], mime_type |-> mime]
    ELSE [parser |-> "None", mime_type |-> mime]

-----------------------------------------------------------------------------
(* process_document, one call at a time, and the response of its caller *)

\* the files a path can name: absent, unreadable, empty, or non-empty with
\* the type libmagic reports for its bytes; size 1 stands for any size > 0
Sources ==
    {[access |-> "missing", size |-> 0, magic |-> "none", name |-> PathNoExt]}
    \cup {[access |-> "unreadable", size |-> n, magic |-> "none", name |-> PathCsv] :
             n \in {0, 1}}
    \cup {[access |-> "ok", size |-> 0, magic |-> "inode/x-empty", name |-> p] :
             p \in Paths}
    \cup {[access |-> "ok", size |-> 1, magic |-> m, name |-> p] :
             m \in SniffTypes, p \in Paths}

NoSource  == [access |-> "ok", size |-> 0, magic |-> "none", name |-> <<>>]
NoOutcome == [kind |-> "none"]
NoCalls   == [sniff |-> 0, lookup |-> 0, parse |-> 0, clean |-> 0]
NoPrev    == [magic |-> "none", ext |-> <<>>, mime_type |-> "none",
              parser |-> "None", kind |-> "none", looked_up |-> FALSE]

DispatchIdle ==
    /\ pc = "idle"
    /\ src = NoSource
    /\ mime_type = "none"
    /\ file_extension = <<>>
    /\ parser = "None"
    /\ raw_text = <<>>
    /\ outcome = NoOutcome
    /\ calls = NoCalls
    /\ status = 0

NormIdle ==
    /\ npc = "raw"
    /\ text = <<>>
    /\ norm1 = <<>>
    /\ norm2 = <<>>

\* temp_file_path = None
NoPath     == 0
NoUpload   == [filename |-> <<>>, size |-> 0, magic |-> "none"]
NoResponse == [status |-> 0]

\* extract_text's locals before a request
ExtractLocalsIdle ==
    /\ hpc = "idle"
    /\ upload = NoUpload
    /\ temp_file_path = NoPath
    /\ exc = "None"
    /\ db_faults = 0
    /\ response = NoResponse

\* no request served yet: no temporary file, no usage log
ExtractIdle ==
    /\ ExtractLocalsIdle
    /\ req = 0
    /\ disk = {}
    /\ usage_logs = <<>>

CallIds == 1..MaxCalls

NoFile  == [access |-> "ok", size |-> 0, magic |-> "none", name |-> <<>>,
            body |-> [ok |-> TRUE, raw |-> <<>>, cause |-> "none"]]
NoFrame == [mime_type |-> "none", file_extension |-> <<>>, parser |-> "None",
            raw_text |-> <<>>]

\* no concurrent call in progress
ConcIdle ==
    /\ cpc = [i \in CallIds |-> "idle"]
    /\ cfile = [i \in CallIds |-> NoFile]
    /\ frames = [i \in CallIds |-> NoFrame]
    /\ cout = [i \in CallIds |-> NoOutcome]
    /\ overlapped = FALSE

\* parse_pdf not called
PdfIdle ==
    /\ ppc = "idle"
    /\ pdf = <<>>
    /\ pg = 1
    /\ pdf_text = <<>>
    /\ ocr_calls = <<>>
    /\ pdf_out = NoOutcome

\* parse_xlsx not called
XlsxIdle ==
    /\ xpc = "idle"
    /\ workbook = <<>>
    /\ xlsx_out = NoOutcome

\* User.quota_limit, default=1000
DEFAULT_QUOTA == 1000

NoRequest == [endpoint |-> "none", bearer |-> "none", api_key |-> "none",
              target |-> "none", body |-> [none |-> TRUE],
              refresh_token |-> "none"]
NoBefore  == [users |-> <<>>, api_keys |-> {}, usage_logs |-> <<>>, disk |-> {}]

\* the users of the deployment: a regular user, an admin, and a regular user
\* whose account is deactivated
InitialUsers ==
    [u \in {"u1", "u2", "u3"} |->
        [role |-> IF u = "u2" THEN "admin" ELSE "user",
         is_active |-> u # "u3",
         quota_limit |-> DEFAULT_QUOTA,
         email |-> u]]

\* the keys issued so far: a usable key and an expired key of u1, a key of the
\* deactivated u3
InitialKeys ==
    {[secret |-> "k1", user_id |-> "u1", is_active |-> TRUE, expired |-> FALSE,
      used |-> FALSE],
     [secret |-> "k2", user_id |-> "u1", is_active |-> TRUE, expired |-> TRUE,
      used |-> FALSE],
     [secret |-> "k3", user_id |-> "u3", is_active |-> TRUE, expired |-> FALSE,
      used |-> FALSE]}

\* the locals of a request before it arrives
AuthLocalsIdle ==
    /\ apc = "idle"
    /\ areq = NoRequest
    /\ user_from_token = "None"
    /\ user_from_key = "None"
    /\ rows_read = {}
    /\ handled = "None"
    /\ aresp = NoResponse
    /\ before = NoBefore

\* no request received yet
AuthIdle ==
    /\ AuthLocalsIdle
    /\ served = 0
    /\ users = InitialUsers
    /\ api_keys = InitialKeys
    /\ extracted_with = <<>>

Minutes == 0 .. MaxMinute

\* the values request.headers.get("X-API-Key") and request.client.host take
RateKeyHeaders == {"None", "k1"}
RateHosts      == {"ip1"}
RateClients    == (RateKeyHeaders \ {"None"}) \cup RateHosts
RateKeys       == [client : RateClients, minute : Minutes]

NoRateKey == [client |-> "None"]
NoRl == [pc |-> "idle", path |-> "None", api_key |-> "None", host |-> "None",
         minute_key |-> NoRateKey, minute_count |-> 0,
         redis_ok |-> TRUE, forwards |-> 0, via |-> "None",
         response |-> NoResponse]

\* no request in the middleware, no counter in Redis
RateIdle ==
    /\ now = 0
    /\ redis_store = [k \in RateKeys |-> 0]
    /\ ttl = {}
    /\ earlier = [k \in RateKeys |-> 0]
    /\ forwarded = [k \in RateKeys |-> [all |-> 0, checked |-> 0]]
    /\ rl = EmptyBag

NoData  == [sub |-> "None", type |-> "None"]
NoToken == [payload |-> [none |-> TRUE]]
NoDecoded == [to |-> "None"]

\* no token made
TokenIdle ==
    /\ tclock = 0
    /\ waits = 0
    /\ tdata = NoData
    /\ token = NoToken
    /\ made_by = "None"
    /\ tout = NoDecoded

RegIds == 1 .. MaxRegs
NoReg == [pc |-> "idle", body |-> [none |-> TRUE], response |-> NoResponse]

\* no request to register
RegIdle == reg = [i \in RegIds |-> NoReg]

MoreIdle == RateIdle /\ TokenIdle /\ RegIdle

OthersIdle ==
    ExtractIdle /\ ConcIdle /\ PdfIdle /\ XlsxIdle /\ AuthIdle /\ MoreIdle

Init == DispatchIdle /\ prev = NoPrev /\ NormIdle /\ OthersIdle

\* process_document(file_path) is entered
Call ==
    /\ pc = "idle"
    /\ \E s \in Sources : src' = s
    /\ pc' = "getsize"
    /\ UNCHANGED <<mime_type, file_extension, parser, raw_text, outcome, calls,
                   status, prev, nvars, xvars>>

\* os.path.getsize(file_path) raises for a path that names no file
GetSizeFails ==
    /\ pc = "getsize"
    /\ src.access = "missing"
    /\ outcome' = [kind |-> "OSError", msg |-> <<"FileNotFoundError">>]
    /\ pc' = "done"
    /\ UNCHANGED <<src, mime_type, file_extension, parser, raw_text, calls,
                   status, prev, nvars, xvars>>

\* if os.path.getsize(file_path) == 0: return "", "inode/x-empty"
ReturnEmpty ==
    /\ pc = "getsize"
    /\ src.access # "missing"
    /\ src.size = 0
    /\ outcome' = [kind |-> "result", text |-> <<>>, mime_type |-> "inode/x-empty"]
    /\ pc' = "done"
    /\ UNCHANGED <<src, mime_type, file_extension, parser, raw_text, calls,
                   status, prev, nvars, xvars>>

\* magic.from_file raises for a file that cannot be opened
SniffFails ==
    /\ pc = "getsize"
    /\ src.access = "unreadable"
    /\ src.size # 0
    /\ calls' = [calls EXCEPT !.sniff = @ + 1]
    /\ outcome' = [kind |-> "OSError", msg |-> <<"PermissionError">>]
    /\ pc' = "done"
    /\ UNCHANGED <<src, mime_type, file_extension, parser, raw_text, status,
                   prev, nvars, xvars>>

\* mutant of Sniff: the zero-size check does not stop an empty file
SniffWithoutSizeCheck ==
    /\ pc = "getsize"
    /\ src.access = "ok"
    /\ calls' = [calls EXCEPT !.sniff = @ + 1]
    /\ mime_type' = src.magic
    /\ file_extension' = Lower(SplitExt(src.name))
    /\ pc' = "select"
    /\ UNCHANGED <<src, parser, raw_text, outcome, status, prev, nvars, xvars>>

\* mime_type = magic.from_file(...); file_extension = splitext(...)[1].lower()
Sniff ==
    /\ pc = "getsize"
    /\ src.access = "ok"
    /\ src.size # 0
    /\ calls' = [calls EXCEPT !.sniff = @ + 1]
    /\ mime_type' = src.magic
    /\ file_extension' = Lower(SplitExt(src.name))
    /\ pc' = "select"
    /\ UNCHANGED <<src, parser, raw_text, outcome, status, prev, nvars, xvars>>

\* the dispatch table is built and the parser chosen
Select ==
    /\ pc = "select"
    /\ LET r == SelectParser(mime_type, file_extension)
       IN  /\ parser' = r.parser
           /\ mime_type' = r.mime_type
    /\ calls' = [calls EXCEPT !.lookup = @ + 1]
    /\ pc' = "invoke"
    /\ UNCHANGED <<src, file_extension, raw_text, outcome, status, prev, nvars, xvars>>

\* else: raise UnsupportedFileType(f"Unsupported file type: {mime_type}")
RaiseUnsupported ==
    /\ pc = "invoke"
    /\ parser = "None"
    /\ outcome' = [kind |-> "UnsupportedFileType",
                   msg |-> <<"Unsupported file type: ", mime_type>>]
    /\ pc' = "done"
    /\ UNCHANGED <<src, mime_type, file_extension, parser, raw_text, calls,
                   status, prev, nvars, xvars>>

\* raw_text = parser(file_path), the parser returning
ParserReturns ==
    /\ pc = "invoke"
    /\ parser # "None"
    /\ \E ret \in ParserBehaviours(parser) :
          LET o == ParserRun(parser, ret)
          IN  /\ o.kind = "return"
              /\ raw_text' = o.raw
    /\ calls' = [calls EXCEPT !.parse = @ + 1]
    /\ pc' = "clean"
    /\ UNCHANGED <<src, mime_type, file_extension, parser, outcome, status,
                   prev, nvars, xvars>>

\* raw_text = parser(file_path), the parser raising: nothing catches it in
\* process_document
ParserRaises ==
    /\ pc = "invoke"
    /\ parser # "None"
    /\ \E ret \in ParserBehaviours(parser) :
          LET o == ParserRun(parser, ret)
          IN  /\ o.kind # "return"
              /\ outcome' = [kind |-> o.kind, msg |-> o.msg, cause |-> ret.cause]
    /\ calls' = [calls EXCEPT !.parse = @ + 1]
    /\ pc' = "done"
    /\ UNCHANGED <<src, mime_type, file_extension, parser, raw_text, status,
                   prev, nvars, xvars>>

\* mutant of CleanAndReturn: the raw text is returned as the parser left it
ReturnRaw ==
    /\ pc = "clean"
    /\ outcome' = [kind |-> "result", text |-> raw_text, mime_type |-> mime_type]
    /\ pc' = "done"
    /\ UNCHANGED <<src, mime_type, file_extension, parser, raw_text, calls,
                   status, prev, nvars, xvars>>

\* cleaned_text = clean_text(raw_text); return cleaned_text, mime_type
CleanAndReturn ==
    /\ pc = "clean"
    /\ outcome' = [kind |-> "result", text |-> clean_text(raw_text),
                   mime_type |-> mime_type]
    /\ calls' = [calls EXCEPT !.clean = @ + 1]
    /\ pc' = "done"
    /\ UNCHANGED <<src, mime_type, file_extension, parser, raw_text, status,
                   prev, nvars, xvars>>

\* the status extract_text answers for an outcome of process_document: the
\* return, then the except clauses in their order
ExtractStatus(o) ==
    CASE o.kind = "result" -> 200
      [] o.kind = "UnsupportedFileType" -> 415
      [] o.kind = "ParsingError" -> 422
      [] OTHER -> 500

\* extract_text answers
Respond ==
    /\ pc = "done"
    /\ status' = ExtractStatus(outcome)
    /\ pc' = "responded"
    /\ UNCHANGED <<src, mime_type, file_extension, parser, raw_text, outcome,
                   calls, prev, nvars, xvars>>

\* the request is over; the call is remembered for comparison with the next
Finish ==
    /\ pc = "responded"
    /\ prev' = [magic |-> src.magic, ext |-> file_extension,
                mime_type |-> mime_type, parser |-> parser,
                kind |-> outcome.kind, looked_up |-> calls.lookup > 0]
    /\ pc' = "idle"
    /\ src' = NoSource
    /\ mime_type' = "none"
    /\ file_extension' = <<>>
    /\ parser' = "None"
    /\ raw_text' = <<>>
    /\ outcome' = NoOutcome
    /\ calls' = NoCalls
    /\ status' = 0
    /\ UNCHANGED <<nvars, xvars>>

Next ==
    \/ Call \/ GetSizeFails \/ ReturnEmpty \/ SniffFails \/ Sniff \/ Select
    \/ RaiseUnsupported \/ ParserReturns \/ ParserRaises \/ CleanAndReturn
    \/ Respond \/ Finish

Spec == Init /\ [][Next]_vars

-----------------------------------------------------------------------------
(* The normalizer on arbitrary input *)

NormInit ==
    /\ npc = "raw"
    /\ text \in RawStrings
    /\ norm1 = <<>>
    /\ norm2 = <<>>
    /\ DispatchIdle
    /\ prev = NoPrev
    /\ OthersIdle

\* normalize(x)
Normalize ==
    /\ npc = "raw"
    /\ norm1' = clean_text(text)
    /\ npc' = "once"
    /\ UNCHANGED <<text, norm2, dvars, xvars>>

\* normalize(normalize(x))
Renormalize ==
    /\ npc = "once"
    /\ norm2' = clean_text(norm1)
    /\ npc' = "twice"
    /\ UNCHANGED <<text, norm1, dvars, xvars>>

NormNext == Normalize \/ Renormalize

SpecNorm == NormInit /\ [][NormNext]_vars

-----------------------------------------------------------------------------
(* extract_text: POST /ocr/extract, one authenticated request at a time *)

\* settings.MAX_FILE_SIZE, 50 * 1024 * 1024
MAX_FILE_SIZE == 52428800

UploadNames == {PathCsv, PathUpperCsv, PathNoExt}
UploadTypes == {"text/plain", "application/pdf", "image/png", "application/zip"}
UploadSizes == {0, 1, MAX_FILE_SIZE, MAX_FILE_SIZE + 1}

\* the uploads a client can send; an upload of no bytes has no type of its own
Uploads ==
    {[filename |-> f, size |-> n, magic |-> m] :
        f \in UploadNames, n \in UploadSizes \ {0}, m \in UploadTypes}
    \cup {[filename |-> f, size |-> 0, magic |-> "inode/x-empty"] :
             f \in UploadNames}

\* the name NamedTemporaryFile gives the staged file: a fresh stem and the
\* suffix os.path.splitext(file.filename)[1]
TempName(filename) == <<"t">> \o SplitExt(filename)

\* the staged file as process_document sees it
StagedSource(u, access) ==
    [access |-> access, size |-> IF u.size = 0 THEN 0 ELSE 1, magic |-> u.magic,
     name |-> TempName(u.filename)]

\* mutant of TooLarge: the cap itself is already too large
TooLargeInclusive(size) == size >= MAX_FILE_SIZE

\* if file_size > settings.MAX_FILE_SIZE
TooLarge(size) == size > MAX_FILE_SIZE

\* the row a committed UsageLog adds
UsageLog(code) == [req |-> req, status_code |-> code, api_key_id |-> "None"]

\* the exception the except clauses of extract_text are offered
InFlight ==
    IF hpc = "except" THEN exc
    ELSE IF hpc = "core" /\ pc = "done" /\ outcome.kind # "result"
         THEN outcome.kind
         ELSE "None"

\* a request arrives; file_content = await file.read()
Request ==
    /\ hpc = "idle"
    /\ req < MaxRequests
    /\ \E u \in Uploads : upload' = u
    /\ req' = req + 1
    /\ hpc' = "read"
    /\ UNCHANGED <<temp_file_path, disk, exc, db_faults, usage_logs, response,
                   dvars, hrest>>

\* raise HTTPException(413) before the try block
RejectTooLarge ==
    /\ hpc = "read"
    /\ TooLarge(upload.size)
    /\ response' = [status |-> 413, detail |-> "File too large"]
    /\ hpc' = "ended"
    /\ UNCHANGED <<upload, req, temp_file_path, disk, exc, db_faults,
                   usage_logs, dvars, hrest>>

\* NamedTemporaryFile(delete=False) or temp_file.write raises: the file may
\* exist already, temp_file_path is still None
StageFails ==
    /\ hpc = "read"
    /\ ~TooLarge(upload.size)
    /\ \E created \in BOOLEAN :
          disk' = IF created THEN disk \cup {req} ELSE disk
    /\ exc' = "OSError"
    /\ hpc' = "except"
    /\ UNCHANGED <<upload, req, temp_file_path, db_faults, usage_logs, response,
                   dvars, hrest>>

\* the upload is written to a temporary file and process_document is called
\* on it; libmagic may fail to examine the file
Stage ==
    /\ hpc = "read"
    /\ ~TooLarge(upload.size)
    /\ pc = "idle"
    /\ disk' = disk \cup {req}
    /\ temp_file_path' = req
    /\ \E access \in {"ok", "unreadable"} : src' = StagedSource(upload, access)
    /\ pc' = "getsize"
    /\ hpc' = "core"
    /\ UNCHANGED <<upload, req, exc, db_faults, usage_logs, response,
                   mime_type, file_extension, parser, raw_text, outcome, calls,
                   status, prev, hrest>>

\* process_document returned; the 200 usage log is committed and the
\* OCRResponse returned
LogSuccess ==
    /\ hpc = "core"
    /\ pc = "done"
    /\ outcome.kind = "result"
    /\ usage_logs' = Append(usage_logs, UsageLog(200))
    /\ response' = [status |-> 200, mime_type |-> outcome.mime_type,
                    content |-> outcome.text]
    /\ hpc' = "finally"
    /\ UNCHANGED <<upload, req, temp_file_path, disk, exc, db_faults, dvars,
                   hrest>>

\* process_document returned; await db.commit() raises inside the try block
LogSuccessFails ==
    /\ hpc = "core"
    /\ pc = "done"
    /\ outcome.kind = "result"
    /\ db_faults' = db_faults + 1
    /\ exc' = "DBError"
    /\ hpc' = "except"
    /\ UNCHANGED <<upload, req, temp_file_path, disk, usage_logs, response,
                   dvars, hrest>>

\* except UnsupportedFileType: log 415, commit, raise HTTPException(415)
HandleUnsupported ==
    /\ InFlight = "UnsupportedFileType"
    /\ usage_logs' = Append(usage_logs, UsageLog(415))
    /\ response' = [status |-> 415, detail |-> "Unsupported file type"]
    /\ exc' = "None"
    /\ hpc' = "finally"
    /\ UNCHANGED <<upload, req, temp_file_path, disk, db_faults, dvars, hrest>>

\* except ParsingError: log 422, commit, raise HTTPException(422, str(e))
HandleParsingError ==
    /\ InFlight = "ParsingError"
    /\ usage_logs' = Append(usage_logs, UsageLog(422))
    /\ response' = [status |-> 422, detail |-> outcome.msg]
    /\ exc' = "None"
    /\ hpc' = "finally"
    /\ UNCHANGED <<upload, req, temp_file_path, disk, db_faults, dvars, hrest>>

\* mutant of HandleException: the generic clause comes first and takes every
\* exception
HandleExceptionFirst ==
    /\ InFlight # "None"
    /\ usage_logs' = Append(usage_logs, UsageLog(500))
    /\ response' = [status |-> 500, detail |-> "Internal server error"]
    /\ exc' = "None"
    /\ hpc' = "finally"
    /\ UNCHANGED <<upload, req, temp_file_path, disk, db_faults, dvars, hrest>>

\* except Exception: log 500, commit, raise HTTPException(500)
HandleException ==
    /\ InFlight \notin {"None", "UnsupportedFileType", "ParsingError"}
    /\ usage_logs' = Append(usage_logs, UsageLog(500))
    /\ response' = [status |-> 500, detail |-> "Internal server error"]
    /\ exc' = "None"
    /\ hpc' = "finally"
    /\ UNCHANGED <<upload, req, temp_file_path, disk, db_faults, dvars, hrest>>

\* await db.commit() raises inside an except clause: no sibling clause takes
\* the new exception, it leaves extract_text through the finally clause
HandlerCommitFails ==
    /\ InFlight # "None"
    /\ db_faults' = db_faults + 1
    /\ exc' = "DBError"
    /\ hpc' = "finally"
    /\ UNCHANGED <<upload, req, temp_file_path, disk, usage_logs, response,
                   dvars, hrest>>

\* what the finally clause leaves on disk
Unlinked ==
    IF temp_file_path # NoPath /\ temp_file_path \in disk
    THEN disk \ {temp_file_path}
    ELSE disk

\* the answer once extract_text is left: an exception that is not an
\* HTTPException is answered 500 by the server
Answer ==
    IF exc # "None"
    THEN [status |-> 500, detail |-> "Internal Server Error"]
    ELSE response

\* mutant of Finally: the file is removed only when no exception is in flight
FinallyUnlessRaising ==
    /\ hpc = "finally"
    /\ disk' = IF exc = "None" THEN Unlinked ELSE disk
    /\ response' = Answer
    /\ hpc' = "ended"
    /\ UNCHANGED <<upload, req, temp_file_path, exc, db_faults, usage_logs,
                   dvars, hrest>>

\* finally: if temp_file_path and os.path.exists(...): os.unlink(...)
Finally ==
    /\ hpc = "finally"
    /\ disk' = Unlinked
    /\ response' = Answer
    /\ hpc' = "ended"
    /\ UNCHANGED <<upload, req, temp_file_path, exc, db_faults, usage_logs,
                   dvars, hrest>>

\* the request is over: the locals of extract_text and process_document go,
\* the disk and the usage_logs table stay
EndRequest ==
    /\ hpc = "ended"
    /\ hpc' = "idle"
    /\ upload' = NoUpload
    /\ temp_file_path' = NoPath
    /\ exc' = "None"
    /\ db_faults' = 0
    /\ response' = NoResponse
    /\ pc' = "idle"
    /\ src' = NoSource
    /\ mime_type' = "none"
    /\ file_extension' = <<>>
    /\ parser' = "None"
    /\ raw_text' = <<>>
    /\ outcome' = NoOutcome
    /\ calls' = NoCalls
    /\ UNCHANGED <<req, disk, usage_logs, status, prev, hrest>>

ExtractNext ==
    \/ Request \/ RejectTooLarge \/ StageFails \/ Stage
    \/ ReturnEmpty \/ SniffFails \/ Sniff \/ Select \/ RaiseUnsupported
    \/ ParserReturns \/ ParserRaises \/ CleanAndReturn
    \/ LogSuccess \/ LogSuccessFails \/ HandleUnsupported \/ HandleParsingError
    \/ HandleException \/ HandlerCommitFails \/ Finally \/ EndRequest

SpecExtract == Init /\ [][ExtractNext]_vars

-----------------------------------------------------------------------------
(* process_document called concurrently on independent files *)

\* what parsing a file's bytes comes to, whichever call parses them
ConcBodies ==
    {[ok |-> TRUE, raw |-> <<" ", "a", "\n">>, cause |-> "none"],
     [ok |-> FALSE, raw |-> <<>>, cause |-> "OSError"]}

ConcFiles ==
    {[access |-> "missing", size |-> 0, magic |-> "none", name |-> PathNoExt,
      body |-> b] : b \in {NoFile.body}}
    \cup {[access |-> "unreadable", size |-> 1, magic |-> "none",
           name |-> PathCsv, body |-> b] : b \in {NoFile.body}}
    \cup {[access |-> "ok", size |-> 0, magic |-> "inode/x-empty",
           name |-> PathCsv, body |-> b] : b \in {NoFile.body}}
    \cup {[access |-> "ok", size |-> 1, magic |-> m, name |-> p, body |-> b] :
             m \in {"text/plain", "application/pdf", "application/zip"},
             p \in {PathCsv, PathNoExt}, b \in ConcBodies}

\* process_document(f) run on its own, from the first line to the last
Alone(f) ==
    IF f.access = "missing"
    THEN [kind |-> "OSError", msg |-> <<"FileNotFoundError">>]
    ELSE IF f.size = 0
    THEN [kind |-> "result", text |-> <<>>, mime_type |-> "inode/x-empty"]
    ELSE IF f.access = "unreadable"
    THEN [kind |-> "OSError", msg |-> <<"PermissionError">>]
    ELSE LET r == SelectParser(f.magic, Lower(SplitExt(f.name)))
             o == ParserRun(r.parser, f.body)
         IN  IF r.parser = "None"
             THEN [kind |-> "UnsupportedFileType",
                   msg |-> <<"Unsupported file type: ", r.mime_type>>]
             ELSE IF o.kind = "return"
             THEN [kind |-> "result", text |-> clean_text(o.raw),
                   mime_type |-> r.mime_type]
             ELSE [kind |-> o.kind, msg |-> o.msg, cause |-> f.body.cause]

\* mutant of Frame: mime_type, file_extension, parser and raw_text are
\* module-level names that every call assigns
SharedFrame(i) == 1

\* the stack frame that holds the locals of call i
Frame(i) == i

\* call i is between its first and its last statement
MidFlight(i) == cpc[i] \in {"select", "invoke", "clean"}

\* call i steps while another call is in mid-flight
Overlap(i) == overlapped \/ \E j \in CallIds \ {i} : MidFlight(j)

ConcInit ==
    /\ cpc = [i \in CallIds |-> "getsize"]
    /\ cfile \in [CallIds -> ConcFiles]
    /\ frames = [i \in CallIds |-> NoFrame]
    /\ cout = [i \in CallIds |-> NoOutcome]
    /\ overlapped = FALSE
    /\ DispatchIdle
    /\ prev = NoPrev
    /\ NormIdle
    /\ ExtractIdle
    /\ PdfIdle
    /\ XlsxIdle
    /\ AuthIdle
    /\ MoreIdle

\* os.path.getsize(file_path) raises
ConcGetSizeFails(i) ==
    /\ cpc[i] = "getsize"
    /\ cfile[i].access = "missing"
    /\ cout' = [cout EXCEPT ![i] = [kind |-> "OSError",
                                    msg |-> <<"FileNotFoundError">>]]
    /\ cpc' = [cpc EXCEPT ![i] = "done"]
    /\ overlapped' = Overlap(i)
    /\ UNCHANGED <<cfile, frames, crest>>

\* return "", "inode/x-empty"
ConcReturnEmpty(i) ==
    /\ cpc[i] = "getsize"
    /\ cfile[i].access # "missing"
    /\ cfile[i].size = 0
    /\ cout' = [cout EXCEPT ![i] = [kind |-> "result", text |-> <<>>,
                                    mime_type |-> "inode/x-empty"]]
    /\ cpc' = [cpc EXCEPT ![i] = "done"]
    /\ overlapped' = Overlap(i)
    /\ UNCHANGED <<cfile, frames, crest>>

\* magic.from_file raises
ConcSniffFails(i) ==
    /\ cpc[i] = "getsize"
    /\ cfile[i].access = "unreadable"
    /\ cfile[i].size # 0
    /\ cout' = [cout EXCEPT ![i] = [kind |-> "OSError",
                                    msg |-> <<"PermissionError">>]]
    /\ cpc' = [cpc EXCEPT ![i] = "done"]
    /\ overlapped' = Overlap(i)
    /\ UNCHANGED <<cfile, frames, crest>>

\* mime_type = magic.from_file(...); file_extension = splitext(...)[1].lower()
ConcSniff(i) ==
    /\ cpc[i] = "getsize"
    /\ cfile[i].access = "ok"
    /\ cfile[i].size # 0
    /\ frames' = [frames EXCEPT
                     ![Frame(i)].mime_type = cfile[i].magic,
                     ![Frame(i)].file_extension = Lower(SplitExt(cfile[i].name))]
    /\ cpc' = [cpc EXCEPT ![i] = "select"]
    /\ overlapped' = Overlap(i)
    /\ UNCHANGED <<cfile, cout, crest>>

\* parser = None, the fallback for text types, the table lookup
ConcSelect(i) ==
    /\ cpc[i] = "select"
    /\ LET r == SelectParser(frames[Frame(i)].mime_type,
                             frames[Frame(i)].file_extension)
       IN  frames' = [frames EXCEPT ![Frame(i)].parser = r.parser,
                                    ![Frame(i)].mime_type = r.mime_type]
    /\ cpc' = [cpc EXCEPT ![i] = "invoke"]
    /\ overlapped' = Overlap(i)
    /\ UNCHANGED <<cfile, cout, crest>>

\* raise UnsupportedFileType(f"Unsupported file type: {mime_type}")
ConcRaiseUnsupported(i) ==
    /\ cpc[i] = "invoke"
    /\ frames[Frame(i)].parser = "None"
    /\ cout' = [cout EXCEPT ![i] =
                   [kind |-> "UnsupportedFileType",
                    msg |-> <<"Unsupported file type: ",
                              frames[Frame(i)].mime_type>>]]
    /\ cpc' = [cpc EXCEPT ![i] = "done"]
    /\ overlapped' = Overlap(i)
    /\ UNCHANGED <<cfile, frames, crest>>

\* raw_text = parser(file_path), the parser returning
ConcParserReturns(i) ==
    /\ cpc[i] = "invoke"
    /\ frames[Frame(i)].parser # "None"
    /\ LET o == ParserRun(frames[Frame(i)].parser, cfile[i].body)
       IN  /\ o.kind = "return"
           /\ frames' = [frames EXCEPT ![Frame(i)].raw_text = o.raw]
    /\ cpc' = [cpc EXCEPT ![i] = "clean"]
    /\ overlapped' = Overlap(i)
    /\ UNCHANGED <<cfile, cout, crest>>

\* raw_text = parser(file_path), the parser raising
ConcParserRaises(i) ==
    /\ cpc[i] = "invoke"
    /\ frames[Frame(i)].parser # "None"
    /\ LET o == ParserRun(frames[Frame(i)].parser, cfile[i].body)
       IN  /\ o.kind # "return"
           /\ cout' = [cout EXCEPT ![i] = [kind |-> o.kind, msg |-> o.msg,
                                           cause |-> cfile[i].body.cause]]
    /\ cpc' = [cpc EXCEPT ![i] = "done"]
    /\ overlapped' = Overlap(i)
    /\ UNCHANGED <<cfile, frames, crest>>

\* cleaned_text = clean_text(raw_text); return cleaned_text, mime_type
ConcCleanAndReturn(i) ==
    /\ cpc[i] = "clean"
    /\ cout' = [cout EXCEPT ![i] =
                   [kind |-> "result",
                    text |-> clean_text(frames[Frame(i)].raw_text),
                    mime_type |-> frames[Frame(i)].mime_type]]
    /\ cpc' = [cpc EXCEPT ![i] = "done"]
    /\ overlapped' = Overlap(i)
    /\ UNCHANGED <<cfile, frames, crest>>

ConcNext ==
    \/ \E i \in CallIds : ConcGetSizeFails(i)
    \/ \E i \in CallIds : ConcReturnEmpty(i)
    \/ \E i \in CallIds : ConcSniffFails(i)
    \/ \E i \in CallIds : ConcSniff(i)
    \/ \E i \in CallIds : ConcSelect(i)
    \/ \E i \in CallIds : ConcRaiseUnsupported(i)
    \/ \E i \in CallIds : ConcParserReturns(i)
    \/ \E i \in CallIds : ConcParserRaises(i)
    \/ \E i \in CallIds : ConcCleanAndReturn(i)

SpecConc == ConcInit /\ [][ConcNext]_vars

-----------------------------------------------------------------------------
(* parse_pdf *)

\* page.extract_text() gives None or a string; scan is what
\* pytesseract.image_to_string reads off the page's image
PageKinds ==
    {[is_none |-> TRUE, layer |-> <<>>, scan |-> sc] : sc \in {<<>>, <<"b">>}}
    \cup {[is_none |-> FALSE, layer |-> l, scan |-> sc] :
             l \in {<<>>, <<"a">>, <<" ">>}, sc \in {<<>>, <<"b">>}}

PdfDocs == UNION {[1..n -> PageKinds] : n \in 0..MaxPages}

\* mutant of Truthy: a text layer of nothing but whitespace counts as empty
TruthyStripped(page) == ~page.is_none /\ Len(Strip(page.layer)) > 0

\* "if page_text:" for None or a str
Truthy(page) == ~page.is_none /\ Len(page.layer) > 0

PdfInit ==
    /\ ppc = "pages"
    /\ pdf \in PdfDocs
    /\ pg = 1
    /\ pdf_text = <<>>
    /\ ocr_calls = <<>>
    /\ pdf_out = NoOutcome
    /\ DispatchIdle
    /\ prev = NoPrev
    /\ NormIdle
    /\ ExtractIdle
    /\ ConcIdle
    /\ XlsxIdle
    /\ AuthIdle
    /\ MoreIdle

\* if page_text: text += page_text + "\n"
PdfTextPage ==
    /\ ppc = "pages"
    /\ pg <= Len(pdf)
    /\ Truthy(pdf[pg])
    /\ pdf_text' = pdf_text \o pdf[pg].layer \o <<"\n">>
    /\ pg' = pg + 1
    /\ UNCHANGED <<ppc, pdf, ocr_calls, pdf_out, prest>>

\* else: text += pytesseract.image_to_string(page.to_image().original) + "\n"
PdfOcrPage ==
    /\ ppc = "pages"
    /\ pg <= Len(pdf)
    /\ ~Truthy(pdf[pg])
    /\ ocr_calls' = Append(ocr_calls, pg)
    /\ pdf_text' = pdf_text \o pdf[pg].scan \o <<"\n">>
    /\ pg' = pg + 1
    /\ UNCHANGED <<ppc, pdf, pdf_out, prest>>

\* pytesseract raises on a page without text: except Exception wraps it
PdfOcrRaises ==
    /\ ppc = "pages"
    /\ pg <= Len(pdf)
    /\ ~Truthy(pdf[pg])
    /\ ocr_calls' = Append(ocr_calls, pg)
    /\ pdf_out' = ParserRun("parse_pdf", [ok |-> FALSE, raw |-> <<>>,
                                          cause |-> "TesseractNotFoundError"])
    /\ ppc' = "done"
    /\ UNCHANGED <<pdf, pg, pdf_text, prest>>

\* return text
PdfReturn ==
    /\ ppc = "pages"
    /\ pg > Len(pdf)
    /\ pdf_out' = ParserRun("parse_pdf", [ok |-> TRUE, raw |-> pdf_text,
                                          cause |-> "none"])
    /\ ppc' = "done"
    /\ UNCHANGED <<pdf, pg, pdf_text, ocr_calls, prest>>

PdfNext == PdfTextPage \/ PdfOcrPage \/ PdfOcrRaises \/ PdfReturn

SpecPdf == PdfInit /\ [][PdfNext]_vars

-----------------------------------------------------------------------------
(* parse_xlsx *)

\* cell.value as openpyxl gives it: None, a number, a boolean, a string
PyNone  == [type |-> "NoneType", int |-> 0, chars |-> <<>>]
PyInt(n) == [type |-> "int", int |-> n, chars |-> <<>>]
PyBool(b) == [type |-> "bool", int |-> IF b THEN 1 ELSE 0, chars |-> <<>>]
PyStr(t) == [type |-> "str", int |-> 0, chars |-> t]

\* str(cell.value); the numbers in the workbooks are 0 and 7
Str(v) ==
    CASE v.type = "NoneType" -> <<"N", "o", "n", "e">>
      [] v.type = "int" -> IF v.int = 0 THEN <<"0">> ELSE <<"7">>
      [] v.type = "bool" -> IF v.int = 1 THEN <<"T", "r", "u", "e">>
                            ELSE <<"F", "a", "l", "s", "e">>
      [] v.type = "str" -> v.chars

\* "if cell.value": None, 0, False and "" are falsy
CellKept(v) ==
    CASE v.type = "NoneType" -> FALSE
      [] v.type = "int" -> v.int # 0
      [] v.type = "bool" -> v.int = 1
      [] v.type = "str" -> Len(v.chars) > 0

XlsxRows ==
    {<<>>,
     <<PyStr(<<"a">>)>>,
     <<PyInt(0)>>,
     <<PyNone, PyStr(<<"a">>)>>,
     <<PyStr(<<"b">>), PyBool(FALSE)>>,
     <<PyInt(7), PyBool(TRUE), PyStr(<<"a">>)>>}

XlsxSheets == UNION {[1..n -> XlsxRows] : n \in 0..MaxRows}

\* workbooks of one or two worksheets
Workbooks == UNION {[1..n -> XlsxSheets] : n \in {1, 2}}

RECURSIVE TabJoin(_)
\* "\t".join(strings)
TabJoin(strings) ==
    IF strings = <<>> THEN <<>>
    ELSE IF Len(strings) = 1 THEN strings[1]
    ELSE strings[1] \o <<"\t">> \o TabJoin(Tail(strings))

RECURSIVE KeptCells(_)
\* [str(cell.value) for cell in row if cell.value]
KeptCells(row) ==
    IF row = <<>> THEN <<>>
    ELSE (IF CellKept(row[1]) THEN <<Str(row[1])>> ELSE <<>>)
         \o KeptCells(Tail(row))

RECURSIVE SheetText(_)
\* for row in sheet.iter_rows(): text += "\t".join([...]) + "\n"
SheetText(sheet) ==
    IF sheet = <<>> THEN <<>>
    ELSE TabJoin(KeptCells(sheet[1])) \o <<"\n">> \o SheetText(Tail(sheet))

RECURSIVE WorkbookText(_)
\* for sheet in workbook.worksheets: ...
WorkbookText(sheets) ==
    IF sheets = <<>> THEN <<>>
    ELSE SheetText(sheets[1]) \o WorkbookText(Tail(sheets))

XlsxInit ==
    /\ xpc = "idle"
    /\ workbook \in Workbooks
    /\ xlsx_out = NoOutcome
    /\ DispatchIdle
    /\ prev = NoPrev
    /\ NormIdle
    /\ ExtractIdle
    /\ ConcIdle
    /\ PdfIdle
    /\ AuthIdle
    /\ MoreIdle

\* openpyxl.load_workbook(file_path) raises: except Exception wraps it
XlsxLoadRaises ==
    /\ xpc = "idle"
    /\ xlsx_out' = ParserRun("parse_xlsx", [ok |-> FALSE, raw |-> <<>>,
                                            cause |-> "CorruptStructure"])
    /\ xpc' = "done"
    /\ UNCHANGED <<workbook, wrest>>

\* workbook = openpyxl.load_workbook(file_path)
XlsxLoad ==
    /\ xpc = "idle"
    /\ xpc' = "loaded"
    /\ UNCHANGED <<workbook, xlsx_out, wrest>>

\* the loops over sheets and rows, then return text
XlsxReturn ==
    /\ xpc = "loaded"
    /\ xlsx_out' = ParserRun("parse_xlsx", [ok |-> TRUE,
                                            raw |-> WorkbookText(workbook),
                                            cause |-> "none"])
    /\ xpc' = "done"
    /\ UNCHANGED <<workbook, wrest>>

XlsxNext == XlsxLoadRaises \/ XlsxLoad \/ XlsxReturn

SpecXlsx == XlsxInit /\ [][XlsxNext]_vars

-----------------------------------------------------------------------------
(* Authentication and authorization dependencies, and the endpoints behind  *)
(* them, one request at a time                                               *)

AdminEndpoints ==
    {"GET admin/users", "GET admin/users/{id}", "PUT admin/users/{id}",
     "DELETE admin/users/{id}", "GET admin/stats"}

\* the endpoints that depend on get_current_active_user only
UserEndpoints ==
    {"GET auth/me", "PUT users/me", "POST keys/create", "POST ocr/extract"}

\* the other endpoints of the keys router, which depend on
\* get_current_active_user only as well
KeyEndpoints == {"GET keys/", "DELETE keys/{id}", "GET keys/{id}/usage"}

\* the endpoints of the auth router that depend on no user
PublicEndpoints == {"POST auth/register", "POST auth/refresh"}

TargetEndpoints ==
    {"GET admin/users/{id}", "PUT admin/users/{id}", "DELETE admin/users/{id}"}

KeyTargetEndpoints == {"DELETE keys/{id}", "GET keys/{id}/usage"}

BodyEndpoints == {"PUT users/me", "PUT admin/users/{id}"}

\* the id the users table gives the user registered by the n-th request
NewUserId(n) == IF n = 1 THEN "r1" ELSE IF n = 2 THEN "r2" ELSE "r3"

\* a bearer credential is an access token naming a user, or not a token; the
\* user is one of the deployment or the one the first request registered
Bearers == {"none", "garbage", "u1", "u2", "u3", NewUserId(1)}

\* the refresh_token parameter is a refresh token naming a user, or not a
\* token
RefreshTokens == {"garbage", "u1", "u2", "u3"}

\* an X-API-Key header holds an issued secret or something else
KeyHeaders == {"none", "garbage", "k1", "k2", "k3"}

\* user ids a path can name; "u9" is the id of no user
Targets == {"u1", "u2", "u9"}

\* key ids a path can name: keys of u1 and of u3, the key the first request
\* created, and "k9", the id of no key
KeyTargets == {"k1", "k3", "n1", "k9"}

\* UserCreate bodies: the email of a user or a new one, role left out or
\* given
RegisterBodies ==
    {[email |-> e, role |-> r] : e \in {"u1", "new"}, r \in {"None", "admin"}}

\* UserUpdate bodies: the fields that are not None
UpdateBodies ==
    {[quota_limit |-> 5000], [quota_limit |-> 0], [email |-> "u2"],
     [is_active |-> FALSE]}

AuthRequests ==
    {[endpoint |-> e, bearer |-> b, api_key |-> k, target |-> t, body |-> d,
      refresh_token |-> "none"] :
        e \in AdminEndpoints \cup UserEndpoints, b \in Bearers,
        k \in KeyHeaders, t \in Targets \cup {"none"},
        d \in UpdateBodies \cup {NoRequest.body}}
    \cup
    {[endpoint |-> e, bearer |-> b, api_key |-> k, target |-> t,
      body |-> NoRequest.body, refresh_token |-> "none"] :
        e \in KeyEndpoints, b \in Bearers, k \in KeyHeaders,
        t \in KeyTargets \cup {"none"}}
    \cup
    {[NoRequest EXCEPT !.endpoint = "POST auth/register", !.body = d] :
        d \in RegisterBodies}
    \cup
    {[NoRequest EXCEPT !.endpoint = "POST auth/refresh", !.refresh_token = t] :
        t \in RefreshTokens}

\* a request names a target and carries a body where its endpoint takes one
WellFormed(r) ==
    /\ (r.target # "none")
          <=> (r.endpoint \in TargetEndpoints \cup KeyTargetEndpoints)
    /\ (r.body # NoRequest.body)
          <=> (r.endpoint \in BodyEndpoints \cup {"POST auth/register"})

\* the active key whose hash matches the header, as a set of at most one
MatchedKeys(header) == {k \in api_keys : k.is_active /\ k.secret = header}

\* matched_key.last_used_at = datetime.utcnow(); await db.commit()
Touched(key) == (api_keys \ {key}) \cup {[key EXCEPT !.used = TRUE]}

\* user = user_from_token or user_from_key
current_user ==
    IF user_from_token # "None" THEN user_from_token ELSE user_from_key

\* the secret generate_api_key gives the n-th request
NewSecret(n) == IF n = 1 THEN "n1" ELSE IF n = 2 THEN "n2" ELSE "n3"

\* what one run of extract_text comes to (SpecExtract has its steps): the
\* status answered, whether a usage log was committed, whether a staged file
\* was left behind
ExtractOutcomes ==
    {[status |-> 413, logged |-> FALSE, leaked |-> FALSE]}
    \cup {[status |-> c, logged |-> TRUE, leaked |-> FALSE] :
             c \in {200, 415, 422, 500}}
    \cup {[status |-> 500, logged |-> l, leaked |-> k] : l, k \in BOOLEAN}

\* a request arrives; the dependencies of a protected endpoint run first
Arrive ==
    /\ apc = "idle"
    /\ served < MaxServed
    /\ \E r \in AuthRequests : WellFormed(r) /\ areq' = r
    /\ served' = served + 1
    /\ before' = [users |-> users, api_keys |-> api_keys,
                  usage_logs |-> usage_logs, disk |-> disk]
    /\ apc' = IF areq'.endpoint \in PublicEndpoints THEN "handler" ELSE "token"
    /\ UNCHANGED <<users, api_keys, user_from_token, user_from_key, rows_read,
                   handled, aresp, usage_logs, disk, arest>>

\* mutant of BearerMissing: a request without Authorization header is
\* answered 401
BearerMissingUnauthorized ==
    /\ apc = "token"
    /\ areq.bearer = "none"
    /\ aresp' = [status |-> 401, detail |-> "Not authenticated"]
    /\ apc' = "ended"
    /\ UNCHANGED <<areq, served, users, api_keys, user_from_token,
                   user_from_key, rows_read, handled, before, usage_logs, disk,
                   arest>>

\* security = HTTPBearer(): without Authorization header the dependency
\* raises 403 "Not authenticated", as the repository's tests assert
BearerMissing ==
    /\ apc = "token"
    /\ areq.bearer = "none"
    /\ aresp' = [status |-> 403, detail |-> "Not authenticated"]
    /\ apc' = "ended"
    /\ UNCHANGED <<areq, served, users, api_keys, user_from_token,
                   user_from_key, rows_read, handled, before, usage_logs, disk,
                   arest>>

\* get_current_user_from_token raises credentials_exception: the token does
\* not decode, or its user is missing or inactive
TokenRejected ==
    /\ apc = "token"
    /\ areq.bearer # "none"
    /\ IF areq.bearer \in DOMAIN users
       THEN ~users[areq.bearer].is_active
       ELSE TRUE
    /\ rows_read' = rows_read \cup ({areq.bearer} \cap DOMAIN users)
    /\ aresp' = [status |-> 401, detail |-> "Could not validate credentials"]
    /\ apc' = "ended"
    /\ UNCHANGED <<areq, served, users, api_keys, user_from_token,
                   user_from_key, handled, before, usage_logs, disk, arest>>

\* get_current_user_from_token returns the user
TokenAccepted ==
    /\ apc = "token"
    /\ areq.bearer \in DOMAIN users
    /\ users[areq.bearer].is_active
    /\ rows_read' = rows_read \cup {areq.bearer}
    /\ user_from_token' = areq.bearer
    /\ apc' = "key"
    /\ UNCHANGED <<areq, served, users, api_keys, user_from_key, handled,
                   aresp, before, usage_logs, disk, arest>>

\* if not api_key: return None
KeyAbsent ==
    /\ apc = "key"
    /\ areq.api_key = "none"
    /\ apc' = "user"
    /\ UNCHANGED <<areq, served, users, api_keys, user_from_token,
                   user_from_key, rows_read, handled, aresp, before,
                   usage_logs, disk, arest>>

\* no active key matches: 401 "Invalid API key"
KeyUnknown ==
    /\ apc = "key"
    /\ areq.api_key # "none"
    /\ MatchedKeys(areq.api_key) = {}
    /\ aresp' = [status |-> 401, detail |-> "Invalid API key"]
    /\ apc' = "ended"
    /\ UNCHANGED <<areq, served, users, api_keys, user_from_token,
                   user_from_key, rows_read, handled, before, usage_logs, disk,
                   arest>>

\* the matched key is past expires_at: 401 "API key has expired"
KeyExpired ==
    /\ apc = "key"
    /\ \E k \in MatchedKeys(areq.api_key) : k.expired
    /\ aresp' = [status |-> 401, detail |-> "API key has expired"]
    /\ apc' = "ended"
    /\ UNCHANGED <<areq, served, users, api_keys, user_from_token,
                   user_from_key, rows_read, handled, before, usage_logs, disk,
                   arest>>

\* last_used_at is committed, then the key's user is missing or inactive:
\* 401 "User not found or inactive"
KeyOwnerRejected ==
    /\ apc = "key"
    /\ \E k \in MatchedKeys(areq.api_key) :
          /\ ~k.expired
          /\ IF k.user_id \in DOMAIN users
             THEN ~users[k.user_id].is_active
             ELSE TRUE
          /\ api_keys' = Touched(k)
          /\ rows_read' = rows_read \cup ({k.user_id} \cap DOMAIN users)
    /\ aresp' = [status |-> 401, detail |-> "User not found or inactive"]
    /\ apc' = "ended"
    /\ UNCHANGED <<areq, served, users, user_from_token, user_from_key,
                   handled, before, usage_logs, disk, arest>>

\* last_used_at is committed and the key's user returned
KeyAccepted ==
    /\ apc = "key"
    /\ \E k \in MatchedKeys(areq.api_key) :
          /\ ~k.expired
          /\ k.user_id \in DOMAIN users
          /\ users[k.user_id].is_active
          /\ api_keys' = Touched(k)
          /\ rows_read' = rows_read \cup {k.user_id}
          /\ user_from_key' = k.user_id
    /\ apc' = "user"
    /\ UNCHANGED <<areq, served, users, user_from_token, handled, aresp,
                   before, usage_logs, disk, arest>>

\* get_current_admin_user: role != ADMIN raises 403 "Admin access required"
AdminRejected ==
    /\ apc = "user"
    /\ areq.endpoint \in AdminEndpoints
    /\ users[current_user].role # "admin"
    /\ aresp' = [status |-> 403, detail |-> "Admin access required"]
    /\ apc' = "ended"
    /\ UNCHANGED <<areq, served, users, api_keys, user_from_token,
                   user_from_key, rows_read, handled, before, usage_logs, disk,
                   arest>>

\* mutant of Authorized: the role is not looked at
AuthorizedAnyRole ==
    /\ apc = "user"
    /\ current_user # "None"
    /\ users[current_user].is_active
    /\ apc' = "handler"
    /\ UNCHANGED <<areq, served, users, api_keys, user_from_token,
                   user_from_key, rows_read, handled, aresp, before,
                   usage_logs, disk, arest>>

\* get_current_user, get_current_active_user and, for an admin endpoint,
\* get_current_admin_user return the user
Authorized ==
    /\ apc = "user"
    /\ current_user # "None"
    /\ users[current_user].is_active
    /\ areq.endpoint \in AdminEndpoints => users[current_user].role = "admin"
    /\ apc' = "handler"
    /\ UNCHANGED <<areq, served, users, api_keys, user_from_token,
                   user_from_key, rows_read, handled, aresp, before,
                   usage_logs, disk, arest>>

\* get_current_user_info: return current_user
GetMe ==
    /\ apc = "handler"
    /\ areq.endpoint = "GET auth/me"
    /\ handled' = "get_current_user_info"
    /\ aresp' = [status |-> 200, user |-> users[current_user]]
    /\ apc' = "ended"
    /\ UNCHANGED <<areq, served, users, api_keys, user_from_token,
                   user_from_key, rows_read, before, usage_logs, disk, arest>>

\* the row of user u after the fields named take the values of the body
Updated(u, body, fields) ==
    [f \in DOMAIN users[u] |->
        IF f \in fields /\ f \in DOMAIN body THEN body[f] ELSE users[u][f]]

\* the commit of a changed email fails on the unique index of users.email
EmailTaken(u, row) == \E v \in DOMAIN users \ {u} : users[v].email = row.email

\* update_current_user: email (and password) are applied, commit, refresh,
\* return current_user
UpdateMe ==
    /\ apc = "handler"
    /\ areq.endpoint = "PUT users/me"
    /\ handled' = "update_current_user"
    /\ LET row == Updated(current_user, areq.body, {"email"})
       IN  IF EmailTaken(current_user, row)
           THEN /\ aresp' = [status |-> 500, detail |-> "Internal Server Error"]
                /\ users' = users
           ELSE /\ users' = [users EXCEPT ![current_user] = row]
                /\ aresp' = [status |-> 200, user |-> row]
    /\ rows_read' = rows_read \cup {current_user}
    /\ apc' = "ended"
    /\ UNCHANGED <<areq, served, api_keys, user_from_token, user_from_key,
                   before, usage_logs, disk, arest>>

\* create_api_key: a fresh key of the current user is committed
CreateKey ==
    /\ apc = "handler"
    /\ areq.endpoint = "POST keys/create"
    /\ handled' = "create_api_key"
    /\ api_keys' = api_keys \cup
          {[secret |-> NewSecret(served), user_id |-> current_user,
            is_active |-> TRUE, expired |-> FALSE, used |-> FALSE]}
    /\ aresp' = [status |-> 201, key |-> NewSecret(served)]
    /\ apc' = "ended"
    /\ UNCHANGED <<areq, served, users, user_from_token, user_from_key,
                   rows_read, before, usage_logs, disk, arest>>

\* extract_text runs for the current user; its usage log names the user and
\* leaves api_key_id unset
Extract ==
    /\ apc = "handler"
    /\ areq.endpoint = "POST ocr/extract"
    /\ handled' = "extract_text"
    /\ \E o \in ExtractOutcomes :
          /\ usage_logs' = IF o.logged
                           THEN Append(usage_logs,
                                       [req |-> served,
                                        status_code |-> o.status,
                                        api_key_id |-> "None"])
                           ELSE usage_logs
          /\ disk' = IF o.leaked THEN disk \cup {served} ELSE disk
          /\ aresp' = [status |-> o.status]
          /\ extracted_with' = IF o.status # 413
                               THEN Append(extracted_with, areq.api_key)
                               ELSE extracted_with
    /\ apc' = "ended"
    /\ UNCHANGED <<areq, served, users, api_keys, user_from_token,
                   user_from_key, rows_read, before, erest>>

\* "role=user_data.role or "user""
RoleOf(body) == IF body.role = "None" THEN "user" ELSE body.role

\* the row register adds: is_active and quota_limit take their defaults
NewUserRow(body) ==
    [role |-> RoleOf(body), is_active |-> TRUE, quota_limit |-> DEFAULT_QUOTA,
     email |-> body.email]

\* register: 400 when a user has the email, else the user is added and
\* committed, 201
Register ==
    /\ apc = "handler"
    /\ areq.endpoint = "POST auth/register"
    /\ handled' = "register"
    /\ IF \E u \in DOMAIN users : users[u].email = areq.body.email
       THEN /\ aresp' = [status |-> 400, detail |-> "Email already registered"]
            /\ users' = users
       ELSE /\ users' = [u \in DOMAIN users \cup {NewUserId(served)} |->
                            IF u \in DOMAIN users THEN users[u]
                            ELSE NewUserRow(areq.body)]
            /\ aresp' = [status |-> 201, user |-> NewUserRow(areq.body)]
    /\ apc' = "ended"
    /\ UNCHANGED <<areq, served, api_keys, user_from_token, user_from_key,
                   rows_read, before, usage_logs, disk, arest>>

\* refresh_access_token: 401 when the token is no refresh token or its user
\* is missing or inactive, else new tokens for that user
Refresh ==
    /\ apc = "handler"
    /\ areq.endpoint = "POST auth/refresh"
    /\ handled' = "refresh_access_token"
    /\ LET t == areq.refresh_token
       IN  aresp' =
             IF t \notin DOMAIN users
             THEN IF t = "garbage"
                  THEN [status |-> 401,
                        detail |-> "Invalid or expired refresh token"]
                  ELSE [status |-> 401, detail |-> "User not found or inactive"]
             ELSE IF ~users[t].is_active
             THEN [status |-> 401, detail |-> "User not found or inactive"]
             ELSE [status |-> 200, access_token |-> t, refresh_token |-> t]
    /\ rows_read' = rows_read \cup ({areq.refresh_token} \cap DOMAIN users)
    /\ apc' = "ended"
    /\ UNCHANGED <<areq, served, users, api_keys, user_from_token,
                   user_from_key, before, usage_logs, disk, arest>>

\* "select(APIKey).where(APIKey.user_id == current_user.id)"
KeysOf(u) == {k \in api_keys : k.user_id = u}

\* list_api_keys: the keys of the current user
ListKeys ==
    /\ apc = "handler"
    /\ areq.endpoint = "GET keys/"
    /\ handled' = "list_api_keys"
    /\ aresp' = [status |-> 200, keys |-> KeysOf(current_user)]
    /\ apc' = "ended"
    /\ UNCHANGED <<areq, served, users, api_keys, user_from_token,
                   user_from_key, rows_read, before, usage_logs, disk, arest>>

DeletableAny(u, id) == {k \in api_keys : k.secret = id}

\* "select(APIKey).where(APIKey.id == key_id,
\*                       APIKey.user_id == current_user.id)"
Deletable(u, id) == {k \in KeysOf(u) : k.secret = id}

\* delete_api_key, get_api_key_usage: the current user has no such key, 404
KeyTargetMissing ==
    /\ apc = "handler"
    /\ areq.endpoint \in KeyTargetEndpoints
    /\ Deletable(current_user, areq.target) = {}
    /\ handled' = IF areq.endpoint = "DELETE keys/{id}" THEN "delete_api_key"
                  ELSE "get_api_key_usage"
    /\ aresp' = [status |-> 404, detail |-> "API key not found"]
    /\ apc' = "ended"
    /\ UNCHANGED <<areq, served, users, api_keys, user_from_token,
                   user_from_key, rows_read, before, usage_logs, disk, arest>>

\* delete_api_key: the key is deleted and committed, 204
DeleteKey ==
    /\ apc = "handler"
    /\ areq.endpoint = "DELETE keys/{id}"
    /\ Deletable(current_user, areq.target) # {}
    /\ handled' = "delete_api_key"
    /\ api_keys' = api_keys \ Deletable(current_user, areq.target)
    /\ aresp' = [status |-> 204]
    /\ apc' = "ended"
    /\ UNCHANGED <<areq, served, users, user_from_token, user_from_key,
                   rows_read, before, usage_logs, disk, arest>>

\* "select(UsageLog).where(UsageLog.api_key_id == key_id)", as the indices of
\* the rows
LogsOfKey(id) ==
    {i \in 1 .. Len(usage_logs) : usage_logs[i].api_key_id = id}

\* get_api_key_usage: the counts over the logs that name the key
KeyUsage ==
    /\ apc = "handler"
    /\ areq.endpoint = "GET keys/{id}/usage"
    /\ Deletable(current_user, areq.target) # {}
    /\ handled' = "get_api_key_usage"
    /\ LET logs == LogsOfKey(areq.target)
           total_requests == Cardinality(logs)
           successful_requests ==
               Cardinality({i \in logs :
                               /\ 200 <= usage_logs[i].status_code
                               /\ usage_logs[i].status_code < 300})
       IN  aresp' = [status |-> 200,
                     total_requests |-> total_requests,
                     successful_requests |-> successful_requests,
                     failed_requests |-> total_requests - successful_requests]
    /\ apc' = "ended"
    /\ UNCHANGED <<areq, served, users, api_keys, user_from_token,
                   user_from_key, rows_read, before, usage_logs, disk, arest>>

\* list_all_users: select(User), return all rows
AdminList ==
    /\ apc = "handler"
    /\ areq.endpoint = "GET admin/users"
    /\ handled' = "list_all_users"
    /\ rows_read' = rows_read \cup DOMAIN users
    /\ aresp' = [status |-> 200, users |-> users]
    /\ apc' = "ended"
    /\ UNCHANGED <<areq, served, users, api_keys, user_from_token,
                   user_from_key, before, usage_logs, disk, arest>>

\* get_user_by_id, update_user, delete_user: the target is no user, 404
AdminTargetMissing ==
    /\ apc = "handler"
    /\ areq.endpoint \in TargetEndpoints
    /\ areq.target \notin DOMAIN users
    /\ handled' = "target lookup"
    /\ aresp' = [status |-> 404, detail |-> "User not found"]
    /\ apc' = "ended"
    /\ UNCHANGED <<areq, served, users, api_keys, user_from_token,
                   user_from_key, rows_read, before, usage_logs, disk, arest>>

\* get_user_by_id: return the row
AdminGet ==
    /\ apc = "handler"
    /\ areq.endpoint = "GET admin/users/{id}"
    /\ areq.target \in DOMAIN users
    /\ handled' = "get_user_by_id"
    /\ rows_read' = rows_read \cup {areq.target}
    /\ aresp' = [status |-> 200, user |-> users[areq.target]]
    /\ apc' = "ended"
    /\ UNCHANGED <<areq, served, users, api_keys, user_from_token,
                   user_from_key, before, usage_logs, disk, arest>>

\* update_user: email, is_active and quota_limit are applied, commit, refresh
AdminUpdate ==
    /\ apc = "handler"
    /\ areq.endpoint = "PUT admin/users/{id}"
    /\ areq.target \in DOMAIN users
    /\ handled' = "update_user"
    /\ LET row == Updated(areq.target, areq.body,
                          {"email", "is_active", "quota_limit"})
       IN  IF EmailTaken(areq.target, row)
           THEN /\ aresp' = [status |-> 500, detail |-> "Internal Server Error"]
                /\ users' = users
           ELSE /\ users' = [users EXCEPT ![areq.target] = row]
                /\ aresp' = [status |-> 200, user |-> row]
    /\ rows_read' = rows_read \cup {areq.target}
    /\ apc' = "ended"
    /\ UNCHANGED <<areq, served, api_keys, user_from_token, user_from_key,
                   before, usage_logs, disk, arest>>

\* delete_user: 400 for the admin's own account, else the row goes and, by
\* ON DELETE CASCADE, the user's keys
AdminDelete ==
    /\ apc = "handler"
    /\ areq.endpoint = "DELETE admin/users/{id}"
    /\ areq.target \in DOMAIN users
    /\ handled' = "delete_user"
    /\ rows_read' = rows_read \cup {areq.target}
    /\ IF areq.target = current_user
       THEN /\ aresp' = [status |-> 400,
                         detail |-> "Cannot delete your own account"]
            /\ UNCHANGED <<users, api_keys>>
       ELSE /\ users' = [u \in DOMAIN users \ {areq.target} |-> users[u]]
            /\ api_keys' = {k \in api_keys : k.user_id # areq.target}
            /\ aresp' = [status |-> 204]
    /\ apc' = "ended"
    /\ UNCHANGED <<areq, served, user_from_token, user_from_key, before,
                   usage_logs, disk, arest>>

\* get_system_stats: counts over users, api_keys and usage_logs
AdminStats ==
    /\ apc = "handler"
    /\ areq.endpoint = "GET admin/stats"
    /\ handled' = "get_system_stats"
    /\ rows_read' = rows_read \cup DOMAIN users
    /\ aresp' = [status |-> 200, total_users |-> Cardinality(DOMAIN users)]
    /\ apc' = "ended"
    /\ UNCHANGED <<areq, served, users, api_keys, user_from_token,
                   user_from_key, before, usage_logs, disk, arest>>

\* the request is over: its locals go, the tables and the disk stay
Leave ==
    /\ apc = "ended"
    /\ apc' = "idle"
    /\ areq' = NoRequest
    /\ user_from_token' = "None"
    /\ user_from_key' = "None"
    /\ rows_read' = {}
    /\ handled' = "None"
    /\ aresp' = NoResponse
    /\ before' = NoBefore
    /\ UNCHANGED <<served, users, api_keys, usage_logs, disk, arest>>

AuthNext ==
    \/ Arrive \/ BearerMissing \/ TokenRejected \/ TokenAccepted
    \/ KeyAbsent \/ KeyUnknown \/ KeyExpired \/ KeyOwnerRejected \/ KeyAccepted
    \/ AdminRejected \/ Authorized
    \/ GetMe \/ UpdateMe \/ CreateKey \/ Extract
    \/ Register \/ Refresh \/ ListKeys \/ KeyTargetMissing \/ DeleteKey
    \/ KeyUsage
    \/ AdminList \/ AdminTargetMissing \/ AdminGet \/ AdminUpdate
    \/ AdminDelete \/ AdminStats \/ Leave

SpecAuth == Init /\ [][AuthNext]_vars

-----------------------------------------------------------------------------
(* RateLimitMiddleware.dispatch, several requests at a time *)

\* settings.RATE_LIMIT_PER_MINUTE
RATE_LIMIT_PER_MINUTE == 60

\* the paths dispatch forwards without counting
ExemptPaths == {"/health", "/docs", "/redoc", "/openapi.json", "/metrics"}

\* request.url.path of the requests followed
RatePaths == {"/health", "/api/v1/ocr/extract"}

\* "api_key if api_key else request.client.host"
client_id(r) == IF r.api_key # "None" THEN r.api_key ELSE r.host

\* the counter values the requests followed may find: no request yet in the
\* window, one request short of the limit, the limit reached; each earlier
\* request was counted once and forwarded
EarlierCounts == {0, RATE_LIMIT_PER_MINUTE - 1, RATE_LIMIT_PER_MINUTE}

RateInit ==
    /\ now = 0
    /\ \E c \in EarlierCounts :
          /\ redis_store = [k \in RateKeys |-> IF k.minute = 0 THEN c ELSE 0]
          /\ earlier = redis_store
          /\ ttl = {k \in RateKeys : redis_store[k] > 0}
    /\ forwarded = [k \in RateKeys |-> [all |-> 0, checked |-> 0]]
    /\ rl = EmptyBag
    /\ DispatchIdle
    /\ prev = NoPrev
    /\ NormIdle
    /\ ExtractIdle
    /\ ConcIdle
    /\ PdfIdle
    /\ XlsxIdle
    /\ AuthIdle
    /\ TokenIdle
    /\ RegIdle

OverLimitLate(minute_count) == minute_count > RATE_LIMIT_PER_MINUTE + 1

\* "if minute_count > settings.RATE_LIMIT_PER_MINUTE"
OverLimit(minute_count) == minute_count > RATE_LIMIT_PER_MINUTE

\* the headers dispatch adds to a response it got inside the try block
RateHeaders(minute_count) ==
    [limit |-> RATE_LIMIT_PER_MINUTE,
     remaining |-> IF minute_count > RATE_LIMIT_PER_MINUTE THEN 0
                   ELSE RATE_LIMIT_PER_MINUTE - minute_count]

\* "await call_next(request)" by request r, which then waits for the
\* application
CallNext(r, via) ==
    [r EXCEPT !.pc = "downstream", !.via = via, !.forwards = @ + 1]

\* the window request r falls into: the one of its counter, or the current
\* one when it got no counter
WindowOf(r) ==
    IF r.minute_key # NoRateKey THEN r.minute_key
    ELSE [client |-> client_id(r), minute |-> now]

\* request r with counter value n goes on after the increment and the expiry:
\* 429 over the limit, call_next otherwise
Checked(r, n) ==
    IF OverLimit(n)
    THEN [r EXCEPT !.pc = "done", !.response = [status |-> 429]]
    ELSE CallNext(r, "try")

\* the requests in dispatch with request r replaced by what it has become
Become(r, q) == (rl (-) SetToBag({r})) (+) SetToBag({q})

\* a request enters dispatch
RateArrive ==
    /\ BagCardinality(rl) < MaxInFlight
    /\ \E p \in RatePaths, k \in RateKeyHeaders, h \in RateHosts :
          rl' = rl (+) SetToBag({[NoRl EXCEPT !.pc = "start", !.path = p,
                                              !.api_key = k, !.host = h]})
    /\ UNCHANGED <<now, redis_store, ttl, earlier, forwarded, rrest>>

\* "if request.url.path in [...]: return await call_next(request)"
RateExempt(r) ==
    /\ r.pc = "start"
    /\ r.path \in ExemptPaths
    /\ rl' = Become(r, CallNext(r, "exempt"))
    /\ UNCHANGED <<now, redis_store, ttl, earlier, forwarded, rrest>>

\* get_redis() returned; minute_key is built from the clock
RateKey(r) ==
    /\ r.pc = "start"
    /\ r.path \notin ExemptPaths
    /\ rl' = Become(r, [r EXCEPT !.pc = "incr",
                                 !.minute_key = [client |-> client_id(r),
                                                 minute |-> now]])
    /\ UNCHANGED <<now, redis_store, ttl, earlier, forwarded, rrest>>

\* get_redis(), redis.incr or redis.expire raises:
\* "except Exception as e: ... return await call_next(request)"
RedisRaises(r) ==
    /\ \/ r.pc = "start" /\ r.path \notin ExemptPaths
       \/ r.pc \in {"incr", "expire"}
    /\ rl' = Become(r, CallNext([r EXCEPT !.redis_ok = FALSE], "fallback"))
    /\ forwarded' = [forwarded EXCEPT ![WindowOf(r)].all = @ + 1]
    /\ UNCHANGED <<now, redis_store, ttl, earlier, rrest>>

\* "minute_count = await redis.incr(minute_key)", INCR being atomic in Redis;
\* a count of 1 goes on to redis.expire, any other to the check
RateIncr(r) ==
    /\ r.pc = "incr"
    /\ LET k == r.minute_key
           n == redis_store[k] + 1
           q == [r EXCEPT !.minute_count = n]
       IN  /\ redis_store' = [redis_store EXCEPT ![k] = n]
           /\ rl' = Become(r, IF n = 1 THEN [q EXCEPT !.pc = "expire"]
                              ELSE Checked(q, n))
           /\ forwarded' = IF n # 1 /\ ~OverLimit(n)
                           THEN [forwarded EXCEPT ![k].all = @ + 1,
                                                  ![k].checked = @ + 1]
                           ELSE forwarded
    /\ UNCHANGED <<now, ttl, earlier, rrest>>

\* "if minute_count == 1: await redis.expire(minute_key, 60)", then the check
RateExpire(r) ==
    /\ r.pc = "expire"
    /\ ttl' = ttl \cup {r.minute_key}
    /\ rl' = Become(r, Checked(r, r.minute_count))
    /\ forwarded' = IF ~OverLimit(r.minute_count)
                    THEN [forwarded EXCEPT ![r.minute_key].all = @ + 1,
                                           ![r.minute_key].checked = @ + 1]
                    ELSE forwarded
    /\ UNCHANGED <<now, redis_store, earlier, rrest>>

\* the application answers; inside the try block the headers are added
DownstreamReturns(r) ==
    /\ r.pc = "downstream"
    /\ rl' = Become(r, [r EXCEPT !.pc = "done",
                                 !.response =
                                     IF r.via = "try"
                                     THEN [status |-> 200,
                                           headers |->
                                               RateHeaders(r.minute_count)]
                                     ELSE [status |-> 200]])
    /\ UNCHANGED <<now, redis_store, ttl, earlier, forwarded, rrest>>

\* the application raises an exception that is no HTTPException: inside the
\* try block "except Exception" catches it and calls call_next, elsewhere it
\* leaves dispatch
DownstreamRaises(r) ==
    /\ r.pc = "downstream"
    /\ rl' = Become(r, IF r.via = "try" THEN CallNext(r, "fallback")
                       ELSE [r EXCEPT !.pc = "done",
                                      !.response = [status |-> 500]])
    /\ UNCHANGED <<now, redis_store, ttl, earlier, forwarded, rrest>>

\* the answer is sent; the request is gone
RateLeave(r) ==
    /\ r.pc = "done"
    /\ rl' = Become(r, [NoRl EXCEPT !.pc = "left"])
    /\ UNCHANGED <<now, redis_store, ttl, earlier, forwarded, rrest>>

\* the clock reaches the next minute
Tick ==
    /\ now < MaxMinute
    /\ now' = now + 1
    /\ UNCHANGED <<redis_store, ttl, earlier, forwarded, rl, rrest>>

RateNext ==
    \/ Tick
    \/ RateArrive
    \/ \E r \in BagToSet(rl) :
          \/ RateExempt(r)
          \/ RateKey(r)
          \/ RedisRaises(r)
          \/ RateIncr(r)
          \/ RateExpire(r)
          \/ DownstreamReturns(r)
          \/ DownstreamRaises(r)
          \/ RateLeave(r)

SpecRate == RateInit /\ [][RateNext]_vars

-----------------------------------------------------------------------------
(* Tokens: create_access_token, create_refresh_token, decode_access_token, *)
(* verify_refresh_token, and the two places that take a token               *)

\* settings.ACCESS_TOKEN_EXPIRE_MINUTES
ACCESS_TOKEN_EXPIRE_MINUTES == 30

\* settings.REFRESH_TOKEN_EXPIRE_DAYS
REFRESH_TOKEN_EXPIRE_DAYS == 7

MinutesPerDay == 24 * 60

\* the value returned where Python returns None
PyNoneValue == [none |-> TRUE]

\* the data dictionaries a caller may pass: "sub" absent, or the id of an
\* active, of a deactivated, or of no user; "type" absent or set by the
\* caller.  The "email" entry is carried along untouched and is left out.
TokenData == [sub : {"None", "u1", "u3", "u9"},
              type : {"None", "access", "refresh"}]

\* expires_delta in minutes; 0 stands for None and for timedelta(0), which are
\* both false in "if expires_delta:"
ExpiresDeltas == {0, 5}

\* jwt.encode(to_encode, key): the claims and a signature of these claims
\* under that key
jwt_encode(to_encode, key) ==
    [payload |-> to_encode, sig |-> [key |-> key, over |-> to_encode]]

\* jwt.decode(token, settings.SECRET_KEY): the claims when the signature is
\* one of these claims under SECRET_KEY and "exp" is in the future;
\* PyJWTError, here PyNoneValue, otherwise
jwt_decode(t, at) ==
    IF /\ t.sig = [key |-> "SECRET_KEY", over |-> t.payload]
       /\ t.payload.exp > at
    THEN t.payload
    ELSE PyNoneValue

\* create_access_token(data, expires_delta) called when the clock shows at
create_access_token(data, expires_delta, at) ==
    LET expire == IF expires_delta # 0 THEN at + expires_delta
                  ELSE at + ACCESS_TOKEN_EXPIRE_MINUTES
    IN  jwt_encode([sub |-> data.sub, exp |-> expire, type |-> "access"],
                   "SECRET_KEY")

create_refresh_token_keeping(data, expires_delta, at) ==
    LET expire == IF expires_delta # 0 THEN at + expires_delta
                  ELSE at + REFRESH_TOKEN_EXPIRE_DAYS * MinutesPerDay
    IN  jwt_encode([sub |-> data.sub, exp |-> expire,
                    type |-> IF data.type # "None" THEN data.type
                             ELSE "refresh"],
                   "SECRET_KEY")

\* create_refresh_token(data, expires_delta) called when the clock shows at
create_refresh_token(data, expires_delta, at) ==
    LET expire == IF expires_delta # 0 THEN at + expires_delta
                  ELSE at + REFRESH_TOKEN_EXPIRE_DAYS * MinutesPerDay
    IN  jwt_encode([sub |-> data.sub, exp |-> expire, type |-> "refresh"],
                   "SECRET_KEY")

\* decode_access_token(token) called when the clock shows at
decode_access_token(t, at) ==
    LET payload == jwt_decode(t, at)
    IN  IF payload = PyNoneValue THEN PyNoneValue
        ELSE IF payload.type # "access" THEN PyNoneValue
        ELSE payload

\* verify_refresh_token(token) called when the clock shows at
verify_refresh_token(t, at) ==
    LET payload == jwt_decode(t, at)
    IN  IF payload = PyNoneValue THEN PyNoneValue
        ELSE IF payload.type # "refresh" THEN PyNoneValue
        ELSE payload

\* the user row with this id exists and is active
ActiveUser(id) == IF id \in DOMAIN users THEN users[id].is_active ELSE FALSE

TokenInit ==
    /\ tclock = 0
    /\ waits = 0
    /\ tdata \in TokenData
    /\ token = NoToken
    /\ made_by = "None"
    /\ tout = NoDecoded
    /\ DispatchIdle
    /\ prev = NoPrev
    /\ NormIdle
    /\ ExtractIdle
    /\ ConcIdle
    /\ PdfIdle
    /\ XlsxIdle
    /\ AuthIdle
    /\ RateIdle
    /\ RegIdle

\* login or refresh_access_token makes the access token
IssueAccess ==
    /\ token = NoToken
    /\ \E d \in ExpiresDeltas : token' = create_access_token(tdata, d, tclock)
    /\ made_by' = "create_access_token"
    /\ UNCHANGED <<tclock, waits, tdata, tout, trest>>

\* login or refresh_access_token makes the refresh token
IssueRefresh ==
    /\ token = NoToken
    /\ \E d \in ExpiresDeltas : token' = create_refresh_token(tdata, d, tclock)
    /\ made_by' = "create_refresh_token"
    /\ UNCHANGED <<tclock, waits, tdata, tout, trest>>

\* somebody without SECRET_KEY makes a token of either type under another key
Forge ==
    /\ token = NoToken
    /\ \E ty \in {"access", "refresh"} :
          token' = jwt_encode([sub |-> tdata.sub,
                               exp |-> tclock + ACCESS_TOKEN_EXPIRE_MINUTES,
                               type |-> ty], "another key")
    /\ made_by' = "forger"
    /\ UNCHANGED <<tclock, waits, tdata, tout, trest>>

\* the holder of a token rewrites its type claim and keeps the signature
Tamper ==
    /\ made_by \in {"create_access_token", "create_refresh_token"}
    /\ tout = NoDecoded
    /\ token' = [token EXCEPT !.payload.type =
                    IF @ = "access" THEN "refresh" ELSE "access"]
    /\ made_by' = "tamperer"
    /\ UNCHANGED <<tclock, waits, tdata, tout, trest>>

\* time passes: less than any lifetime, the lifetime of an access token, the
\* lifetime of a refresh token
Wait ==
    /\ waits < MaxWaits
    /\ token # NoToken
    /\ tout = NoDecoded
    /\ \E d \in {1, ACCESS_TOKEN_EXPIRE_MINUTES,
                 REFRESH_TOKEN_EXPIRE_DAYS * MinutesPerDay} :
          tclock' = tclock + d
    /\ waits' = waits + 1
    /\ UNCHANGED <<tdata, token, made_by, tout, trest>>

\* get_current_user_from_token with the token as the bearer credentials
PresentBearer ==
    /\ token # NoToken
    /\ tout = NoDecoded
    /\ LET payload == decode_access_token(token, tclock)
       IN  tout' = [to |-> "get_current_user_from_token",
                    payload |-> payload,
                    status |->
                        IF payload = PyNoneValue THEN 401
                        ELSE IF payload.sub = "None" THEN 401
                        ELSE IF ~ActiveUser(payload.sub) THEN 401
                        ELSE 200]
    /\ UNCHANGED <<tclock, waits, tdata, token, made_by, trest>>

\* refresh_access_token with the token as its refresh_token parameter
PresentRefresh ==
    /\ token # NoToken
    /\ tout = NoDecoded
    /\ LET payload == verify_refresh_token(token, tclock)
           code == IF payload = PyNoneValue THEN 401
                   ELSE IF payload.sub = "None" THEN 401
                   ELSE IF ~ActiveUser(payload.sub) THEN 401
                   ELSE 200
       IN  tout' =
             IF code = 200
             THEN [to |-> "refresh_access_token", payload |-> payload,
                   status |-> 200,
                   access_token |->
                       create_access_token([sub |-> payload.sub,
                                            type |-> "None"], 0, tclock),
                   refresh_token |->
                       create_refresh_token([sub |-> payload.sub,
                                             type |-> "None"], 0, tclock)]
             ELSE [to |-> "refresh_access_token", payload |-> payload,
                   status |-> code]
    /\ UNCHANGED <<tclock, waits, tdata, token, made_by, trest>>

TokenNext ==
    \/ IssueAccess
    \/ IssueRefresh
    \/ Forge
    \/ Tamper
    \/ Wait
    \/ PresentBearer
    \/ PresentRefresh

SpecToken == TokenInit /\ [][TokenNext]_vars

-----------------------------------------------------------------------------
(* register, several requests at a time *)

\* "select(User).where(User.email == user_data.email)" finds a row
EmailRegistered(email) == \E u \in DOMAIN users : users[u].email = email

\* a request to POST /auth/register arrives
RegArrive(i) ==
    /\ reg[i].pc = "idle"
    /\ \E b \in RegisterBodies :
          reg' = [reg EXCEPT ![i] = [NoReg EXCEPT !.pc = "select", !.body = b]]
    /\ UNCHANGED <<users, grest>>

\* the select finds a user with the email: 400 "Email already registered"
RegExisting(i) ==
    /\ reg[i].pc = "select"
    /\ EmailRegistered(reg[i].body.email)
    /\ reg' = [reg EXCEPT ![i].pc = "done",
                          ![i].response =
                              [status |-> 400,
                               detail |-> "Email already registered"]]
    /\ UNCHANGED <<users, grest>>

\* the select finds no user: the password is hashed and the new user added to
\* the session
RegNew(i) ==
    /\ reg[i].pc = "select"
    /\ ~EmailRegistered(reg[i].body.email)
    /\ reg' = [reg EXCEPT ![i].pc = "commit"]
    /\ UNCHANGED <<users, grest>>

\* "await db.commit()" inserts the row; "await db.refresh(new_user)"; 201
RegCommit(i) ==
    /\ reg[i].pc = "commit"
    /\ ~EmailRegistered(reg[i].body.email)
    /\ users' = [u \in DOMAIN users \cup {NewUserId(i)} |->
                    IF u \in DOMAIN users THEN users[u]
                    ELSE NewUserRow(reg[i].body)]
    /\ reg' = [reg EXCEPT ![i].pc = "done",
                          ![i].response =
                              [status |-> 201,
                               user |-> NewUserRow(reg[i].body)]]
    /\ UNCHANGED grest

\* "await db.commit()" raises IntegrityError on the unique index of
\* users.email; register catches nothing, the server answers 500
RegCommitRaises(i) ==
    /\ reg[i].pc = "commit"
    /\ EmailRegistered(reg[i].body.email)
    /\ reg' = [reg EXCEPT ![i].pc = "done",
                          ![i].response =
                              [status |-> 500,
                               detail |-> "Internal Server Error"]]
    /\ UNCHANGED <<users, grest>>

RegNext ==
    \E i \in RegIds :
        \/ RegArrive(i)
        \/ RegExisting(i)
        \/ RegNew(i)
        \/ RegCommit(i)
        \/ RegCommitRaises(i)

SpecRegister == Init /\ [][RegNext]_vars

-----------------------------------------------------------------------------
(* Properties of normalized text *)

\* the lines of a text; the empty text has no line
LinesOf(t) == IF t = <<>> THEN <<>> ELSE SplitLines(t)

NoBlankLine(t) == \A i \in DOMAIN LinesOf(t) : LinesOf(t)[i] # <<>>

NoEdgeWhitespace(t) ==
    \A i \in DOMAIN LinesOf(t) :
        LET l == LinesOf(t)[i]
        IN  l # <<>> => l[1] \notin Whitespace /\ l[Len(l)] \notin Whitespace

NoDoubleNewline(t) ==
    \A i \in 1..(Len(t)-1) : ~(t[i] = "\n" /\ t[i+1] = "\n")

Normalized(t) == NoBlankLine(t) /\ NoEdgeWhitespace(t) /\ NoDoubleNewline(t)

\* C1: whatever the raw string, clean_text returns a text without blank
\* lines, without leading or trailing whitespace on any line and without two
\* consecutive newlines; the spec's example normalizes to "a\nb\nc".
C1_NormalizedOutput ==
    npc # "raw" =>
        /\ Normalized(norm1)
        /\ (text = ExampleRaw => norm1 = ExampleClean)

\* C2: the normalizer is idempotent: clean_text(clean_text(s)) = clean_text(s).
C2_Idempotent == npc = "twice" => norm2 = norm1

-----------------------------------------------------------------------------
(* Properties of process_document *)

\* the call has returned or raised
Ended == pc \in {"done", "responded"}

\* the call got as far as choosing a parser
LookedUp == pc \in {"invoke", "clean", "done", "responded"} /\ calls.lookup = 1

\* the exception came out of a parser
FromParser == Ended /\ "cause" \in DOMAIN outcome

\* C3: for a zero-byte source the call returns ("", "inode/x-empty") whatever
\* the path, and has neither sniffed, nor looked up a parser, nor parsed.
C3_EmptySource ==
    (Ended /\ src.access # "missing" /\ src.size = 0) =>
        /\ outcome = [kind |-> "result", text |-> <<>>,
                      mime_type |-> "inode/x-empty"]
        /\ calls = NoCalls
        /\ parser = "None"

C3_Witness ==
    /\ Ended /\ src.access = "ok" /\ src.size = 0 /\ src.name = PathCsv
    /\ outcome.kind = "result"

\* C4 as stated: a non-empty file sniffed as text/plain resolves to text/csv
\* with parse_csv if its extension is .csv, to text/markdown with
\* parse_markdown if it is .md, and to text/plain with parse_text for every
\* other extension or none (the extension as the path spells it).
C4_AsStated ==
    (LookedUp /\ src.magic = "text/plain") =>
        LET ext == SplitExt(src.name)
        IN  /\ ext = ExtCsv => mime_type = "text/csv" /\ parser = "parse_csv"
            /\ ext = ExtMd =>
                  mime_type = "text/markdown" /\ parser = "parse_markdown"
            /\ ext \notin {ExtCsv, ExtMd} =>
                  mime_type = "text/plain" /\ parser = "parse_text"

\* C4 amended: the same, the extension being compared in lower case, so that
\* .CSV counts as .csv and .MD as .md.
C4_TextDisambiguation ==
    (LookedUp /\ src.magic = "text/plain") =>
        LET ext == Lower(SplitExt(src.name))
        IN  /\ ext = ExtCsv => mime_type = "text/csv" /\ parser = "parse_csv"
            /\ ext = ExtMd =>
                  mime_type = "text/markdown" /\ parser = "parse_markdown"
            /\ ext \notin {ExtCsv, ExtMd} =>
                  mime_type = "text/plain" /\ parser = "parse_text"

C4_Witness ==
    /\ LookedUp /\ src.magic = "text/plain" /\ src.name = PathUpperCsv
    /\ mime_type = "text/csv" /\ parser = "parse_csv"

\* C5: two files with the same sniffed type other than text/plain get the
\* same resolved type and the same parser, or both UnsupportedFileType,
\* whatever their extensions.
C5_ExtensionNeverOverrides ==
    (LookedUp /\ prev.looked_up /\ src.magic = prev.magic
        /\ src.magic # "text/plain") =>
        /\ mime_type = prev.mime_type
        /\ mime_type = src.magic
        /\ parser = prev.parser
        /\ Ended => (outcome.kind = "UnsupportedFileType"
                        <=> prev.kind = "UnsupportedFileType")

C5_Witness ==
    /\ Ended /\ LookedUp /\ prev.looked_up
    /\ src.magic = "application/pdf" /\ prev.magic = "application/pdf"
    /\ prev.ext = ExtCsv /\ file_extension = ExtMd
    /\ parser = "parse_pdf"

\* C6: when the resolved type of a non-empty file has no registered parser the
\* call raises UnsupportedFileType with the resolved type in its message, and
\* neither a parser nor the normalizer has run.
C6_Unsupported ==
    (Ended /\ LookedUp /\ mime_type \notin RegisteredTypes) =>
        /\ outcome = [kind |-> "UnsupportedFileType",
                      msg |-> <<"Unsupported file type: ", mime_type>>]
        /\ calls.parse = 0
        /\ calls.clean = 0

C6_Witness ==
    /\ Ended /\ LookedUp /\ mime_type = "application/zip"
    /\ outcome.kind = "UnsupportedFileType"

\* C7: the mime_type of a successful result is one of the 15 registered types
\* or inode/x-empty, and each of the 15, sniffed for a non-empty file, selects
\* a parser and never ends in UnsupportedFileType.
C7_RegisteredTypes ==
    /\ Cardinality(RegisteredTypes) = 15
    /\ (Ended /\ outcome.kind = "result") =>
          outcome.mime_type \in RegisteredTypes \cup {"inode/x-empty"}
    /\ (LookedUp /\ src.magic \in RegisteredTypes) =>
          /\ parser \in Parsers
          /\ Ended => outcome.kind # "UnsupportedFileType"

C7_Witness ==
    /\ Ended /\ src.magic = "text/rtf" /\ outcome.kind = "result"
    /\ outcome.mime_type = "text/rtf"

\* C8: whatever is raised inside a parser reaches the caller of
\* process_document as ParsingError naming the format and the cause, never as
\* the lower-level exception.
C8_ParserErrorsWrapped ==
    FromParser =>
        /\ outcome.kind = "ParsingError"
        /\ outcome.msg =
              <<"Error parsing ", ParserLabel(parser), ": ", outcome.cause>>

C8_Witness ==
    /\ FromParser /\ parser = "parse_pdf" /\ outcome.cause = "CorruptStructure"
    /\ outcome.kind = "ParsingError"

\* C9: a missing OCR engine during image or PDF extraction leaves
\* process_document as a failure other than ParsingError and is answered with
\* 500, not 422.
C9_MissingEngineIsInternal ==
    (FromParser /\ outcome.cause = "TesseractNotFoundError") =>
        /\ outcome.kind # "ParsingError"
        /\ pc = "responded" => status = 500

\* the outcomes C10 names
NormalizedResult ==
    /\ outcome.kind = "result"
    /\ calls.parse = 1 /\ calls.clean = 1
    /\ parser \in Parsers
    /\ outcome.text = clean_text(raw_text)
    /\ outcome.mime_type = mime_type

UnsupportedFailure ==
    /\ outcome.kind = "UnsupportedFileType"
    /\ calls.parse = 0
    /\ DOMAIN outcome = {"kind", "msg"}

ParsingFailure ==
    /\ outcome.kind = "ParsingError"
    /\ calls.parse = 1
    /\ "text" \notin DOMAIN outcome
    /\ outcome.msg = ParserRun(parser, [ok |-> FALSE, raw |-> <<>>,
                                        cause |-> outcome.cause]).msg

\* the outcomes C10 leaves out
EmptyResult ==
    /\ outcome = [kind |-> "result", text |-> <<>>, mime_type |-> "inode/x-empty"]
    /\ calls = NoCalls

UnexpectedFailure ==
    /\ outcome.kind = "OSError"
    /\ calls.lookup = 0 /\ calls.parse = 0
    /\ DOMAIN outcome = {"kind", "msg"}

\* C10 as stated: every call ends in a normalized result of the selected
\* parser with the resolved type, in UnsupportedFileType or in the parser's
\* ParsingError; no failure carries text and no parser runs twice.
C10_AsStated ==
    /\ calls.parse <= 1
    /\ Ended => NormalizedResult \/ UnsupportedFailure \/ ParsingFailure

\* C10 amended: besides those three, a call ends in the empty result of a
\* zero-byte file (no parser selected) or in the exception that
\* os.path.getsize or magic.from_file raised before any parser was looked up.
C10_Outcomes ==
    /\ calls.parse <= 1
    /\ Ended => \/ NormalizedResult \/ UnsupportedFailure \/ ParsingFailure
                \/ EmptyResult \/ UnexpectedFailure

C10_Witness ==
    /\ Ended /\ NormalizedResult /\ raw_text = ExampleRaw

-----------------------------------------------------------------------------
(* Properties of extract_text *)

\* the request has been answered and its locals are still in place
RequestEnded == hpc = "ended"

\* process_document was invoked on the staged file and has come back
CoreInvoked == pc = "done" /\ temp_file_path = req

\* C11: once process_document has been invoked on the staged temporary file,
\* that file no longer exists when the request ends, whether the call
\* returned, raised UnsupportedFileType, ParsingError or anything else, and
\* whether or not a usage-log commit raised, also inside an except clause.
C11_TempFileRemoved ==
    (RequestEnded /\ CoreInvoked) => req \notin disk

\* a request whose parser failed and whose 422 usage-log commit raised inside
\* the except clause has ended with its staged file gone
C11_Witness ==
    /\ RequestEnded
    /\ CoreInvoked
    /\ outcome.kind = "ParsingError"
    /\ db_faults = 1
    /\ req \notin disk

LogsOfRequest == {i \in DOMAIN usage_logs : usage_logs[i].req = req}

\* C13: an upload larger than MAX_FILE_SIZE is answered 413 with no temporary
\* file created, process_document not called and no usage log written; an
\* upload of exactly MAX_FILE_SIZE bytes passes the check and is staged.
C13_SizeCap ==
    /\ (hpc \notin {"idle", "read"} /\ upload.size > MAX_FILE_SIZE) =>
          /\ RequestEnded
          /\ response.status = 413
          /\ req \notin disk
          /\ temp_file_path = NoPath
          /\ pc = "idle"
          /\ calls = NoCalls
          /\ LogsOfRequest = {}
    /\ (hpc \notin {"idle", "read"} /\ upload.size = MAX_FILE_SIZE) =>
          /\ response.status # 413
          /\ hpc = "core" => (req \in disk /\ temp_file_path = req)

\* an upload one byte over the cap has been turned away, while the usage log
\* of an earlier request is in the table
C13_Witness ==
    /\ RequestEnded
    /\ upload.size = MAX_FILE_SIZE + 1
    /\ response.status = 413
    /\ Len(usage_logs) = 1

\* the request got past the size check
PassedSizeCheck == hpc \in {"core", "except", "finally", "ended"} /\ response.status # 413

\* C29: every extract request that passes the size check has, when it ends,
\* exactly one usage log, whose status_code is the status answered to the
\* client; also when the commit of the 200 log raises and the generic except
\* clause runs.
C29_OneLogPerRequest ==
    (RequestEnded /\ PassedSizeCheck) =>
        /\ Cardinality(LogsOfRequest) = 1
        /\ \A i \in LogsOfRequest : usage_logs[i].status_code = response.status

\* C30: after an extract request has ended, no temporary file created for it
\* is on disk, also when the write into the new file raised before
\* temp_file_path was assigned.
C30_NoTempFileLeft ==
    RequestEnded => req \notin disk

-----------------------------------------------------------------------------
(* Properties of concurrent calls *)

\* C14: in every interleaving of concurrent calls, each call that has ended
\* holds the result or the failure that process_document gives for its file
\* when run alone.
C14_Independent ==
    \A i \in CallIds : cpc[i] = "done" => cout[i] = Alone(cfile[i])

\* two calls whose steps overlapped have both ended, the first with the
\* cleaned text of a CSV file, the second with a PDF parser's failure
C14_Witness ==
    /\ overlapped
    /\ cpc[1] = "done" /\ cpc[2] = "done"
    /\ cout[1] = [kind |-> "result", text |-> <<"a">>, mime_type |-> "text/csv"]
    /\ cout[2].kind = "ParsingError"
    /\ cfile[2].magic = "application/pdf"

-----------------------------------------------------------------------------
(* Properties of parse_pdf and parse_xlsx *)

\* the page has a text layer of at least one character
HasTextLayer(page) == ~page.is_none /\ page.layer # <<>>

\* the pages before page n that have no text layer, in page order
RECURSIVE PagesWithoutText(_, _)
PagesWithoutText(doc, n) ==
    IF n = 0 THEN <<>>
    ELSE PagesWithoutText(doc, n - 1)
         \o (IF HasTextLayer(doc[n]) THEN <<>> ELSE <<n>>)

\* the text of the first n pages: text layer or OCR output, each followed by
\* a newline
RECURSIVE PerPageText(_, _)
PerPageText(doc, n) ==
    IF n = 0 THEN <<>>
    ELSE PerPageText(doc, n - 1)
         \o (IF HasTextLayer(doc[n]) THEN doc[n].layer ELSE doc[n].scan)
         \o <<"\n">>

\* C15: parse_pdf hands a page to OCR exactly when the page's text layer is
\* None or the empty string, never when it has at least one character (a
\* single space included), and returns the per-page text (text layer or OCR
\* output), each followed by a newline, in page order.
C15_OcrIffNoTextLayer ==
    /\ ppc = "pages" => ocr_calls = PagesWithoutText(pdf, pg - 1)
    /\ (ppc = "done" /\ pdf_out.kind = "return") =>
          /\ ocr_calls = PagesWithoutText(pdf, Len(pdf))
          /\ pdf_out.raw = PerPageText(pdf, Len(pdf))

\* a two-page PDF, a whitespace-only text layer then a page without one: only
\* the second page went to OCR
C15_Witness ==
    /\ ppc = "done"
    /\ pdf_out.kind = "return"
    /\ Len(pdf) = 2
    /\ pdf[1] = [is_none |-> FALSE, layer |-> <<" ">>, scan |-> <<"b">>]
    /\ pdf[2].is_none
    /\ ocr_calls = <<2>>
    /\ pdf_out.raw = <<" ", "\n", "b", "\n">>

RECURSIVE NonEmptyCells(_)
\* the stringified values of the cells of a row that hold a value
NonEmptyCells(row) ==
    IF row = <<>> THEN <<>>
    ELSE (IF row[1].type # "NoneType" THEN <<Str(row[1])>> ELSE <<>>)
         \o NonEmptyCells(Tail(row))

RECURSIVE RowsText(_)
\* one line per row: its non-empty cells joined by tabs
RowsText(sheet) ==
    IF sheet = <<>> THEN <<>>
    ELSE TabJoin(NonEmptyCells(sheet[1])) \o <<"\n">> \o RowsText(Tail(sheet))

RECURSIVE SheetsText(_)
SheetsText(sheets) ==
    IF sheets = <<>> THEN <<>>
    ELSE RowsText(sheets[1]) \o SheetsText(Tail(sheets))

\* C16: parse_xlsx returns, for every row of every worksheet in workbook
\* order, the stringified values of the row's non-empty cells in column order
\* joined by tabs, one row per line, where a cell holding 0 or False is
\* non-empty.
C16_NonEmptyCellsEmitted ==
    (xpc = "done" /\ xlsx_out.kind = "return") =>
        xlsx_out.raw = SheetsText(workbook)

-----------------------------------------------------------------------------
(* Properties of authentication and of the endpoints behind it *)

\* the request has been answered and its locals are still in place
Answered == apc = "ended"

\* the keys that were usable when the request arrived: active, unexpired, of
\* an active user
UsableKeys ==
    {k \in before.api_keys :
        /\ k.is_active
        /\ ~k.expired
        /\ k.user_id \in DOMAIN before.users
        /\ before.users[k.user_id].is_active}

\* C17: a request to a protected endpoint with a valid, active, unexpired API
\* key in X-API-Key and no bearer token is authenticated as the key's owner
\* and reaches the endpoint function; on ocr/extract, extract_text runs.
C17_ApiKeyAuthenticates ==
    \A k \in UsableKeys :
        (/\ Answered
         /\ areq.endpoint \in UserEndpoints
         /\ areq.bearer = "none"
         /\ areq.api_key = k.secret) =>
            /\ aresp.status \notin {401, 403}
            /\ user_from_key = k.user_id
            /\ areq.endpoint = "POST ocr/extract" => handled = "extract_text"

\* the tables and the disk are as they were when the request arrived
NothingChanged ==
    /\ users = before.users
    /\ api_keys = before.api_keys
    /\ usage_logs = before.usage_logs
    /\ disk = before.disk

\* C18: a request without credentials to auth/me, users/me, keys/create or
\* ocr/extract is answered 403 with no endpoint function run and users, API
\* keys, usage logs and temporary files as they were.
C18_NoCredentials ==
    (/\ Answered
     /\ areq.endpoint \in UserEndpoints
     /\ areq.bearer = "none"
     /\ areq.api_key = "none") =>
        /\ aresp.status = 403
        /\ handled = "None"
        /\ NothingChanged

\* an extract request without credentials was turned away with 403, after an
\* earlier request had left a usage log
C18_Witness ==
    /\ Answered
    /\ areq.endpoint = "POST ocr/extract"
    /\ areq.bearer = "none"
    /\ areq.api_key = "none"
    /\ aresp.status = 403
    /\ Len(usage_logs) = 1

\* the request passed get_current_user: its token was accepted and so was its
\* API key, if it sent one
Authenticated ==
    /\ user_from_token # "None"
    /\ areq.api_key # "none" => user_from_key # "None"

\* C19: a request of an authenticated user whose role is not admin to any of
\* the five admin endpoints is answered 403, no endpoint function runs, the
\* users table is as it was, and no row of it was selected except the
\* requester's own by the authentication dependencies.
C19_AdminOnly ==
    (/\ Answered
     /\ areq.endpoint \in AdminEndpoints
     /\ Authenticated
     /\ before.users[user_from_token].role # "admin") =>
        /\ aresp.status = 403
        /\ handled = "None"
        /\ users = before.users
        /\ rows_read \subseteq {user_from_token, user_from_key}

\* the regular user u1 asked to delete the admin u2 and was answered 403; u2
\* is still there
C19_Witness ==
    /\ Answered
    /\ areq.endpoint = "DELETE admin/users/{id}"
    /\ areq.target = "u2"
    /\ user_from_token = "u1"
    /\ aresp.status = 403
    /\ "u2" \in DOMAIN users

\* C20: PUT users/me with a quota_limit is answered 200 and the returned and
\* the stored quota_limit of the current user equal the submitted value.
C20_QuotaUpdated ==
    (/\ Answered
     /\ areq.endpoint = "PUT users/me"
     /\ handled = "update_current_user"
     /\ "quota_limit" \in DOMAIN areq.body) =>
        /\ aresp.status = 200
        /\ aresp.user.quota_limit = areq.body.quota_limit
        /\ users[current_user].quota_limit = areq.body.quota_limit

-----------------------------------------------------------------------------
(* Properties of the rate-limit middleware *)

\* C26: in no execution is call_next invoked a second time for the same
\* request, also when the downstream handler raises a non-HTTP exception.
C26_ForwardedOnce ==
    \A r \in BagToSet(rl) : r.forwards <= 1

\* the requests dispatch has not yet answered or has just answered
InDispatch == BagToSet(rl)

\* rejected requests never reach the application
RejectedUnforwarded ==
    \A r \in InDispatch : r.response.status = 429 => r.forwards = 0

\* requests on exempt paths are never counted and never rejected
ExemptUncounted ==
    \A r \in InDispatch :
        r.path \in ExemptPaths =>
            /\ r.minute_key = NoRateKey
            /\ r.minute_count = 0
            /\ r.response.status # 429

\* C24 as stated: for every client identifier and every one-minute window at
\* most RATE_LIMIT_PER_MINUTE requests on counted paths are forwarded to the
\* application, whatever happens to the requests; requests answered 429 never
\* reach the application; exempt paths are never counted or rejected.
C24_AsStated ==
    /\ \A k \in RateKeys :
          earlier[k] + forwarded[k].all <= RATE_LIMIT_PER_MINUTE
    /\ RejectedUnforwarded
    /\ ExemptUncounted

\* C24: for every client identifier and every one-minute window, of the
\* requests on counted paths whose Redis calls all succeeded at most
\* RATE_LIMIT_PER_MINUTE are forwarded to the application, in every
\* interleaving; a request whose counter value exceeds the limit is answered
\* 429 and never reaches the application; exempt paths are never counted or
\* rejected.
C24_LimitWhileRedisAnswers ==
    /\ \A k \in RateKeys :
          earlier[k] + forwarded[k].checked <= RATE_LIMIT_PER_MINUTE
    /\ \A r \in InDispatch :
          OverLimit(r.minute_count) =>
              r.response.status = 429 /\ r.forwards = 0
    /\ RejectedUnforwarded
    /\ ExemptUncounted

\* two requests of one client in one window are in dispatch together: one got
\* the last place under the limit and was forwarded, the other was answered
\* 429
C24_Witness ==
    \E r, q \in InDispatch :
        /\ r.minute_key = q.minute_key
        /\ r.minute_key # NoRateKey
        /\ r.minute_count = RATE_LIMIT_PER_MINUTE
        /\ r.forwards = 1
        /\ q.response.status = 429

-----------------------------------------------------------------------------
(* Properties of tokens *)

\* the presented token carries a signature of its claims under SECRET_KEY and
\* has not expired
ValidNow ==
    /\ token.sig = [key |-> "SECRET_KEY", over |-> token.payload]
    /\ token.payload.exp > tclock

\* C23: decode_access_token returns a payload only for a validly signed,
\* unexpired token of type "access" and verify_refresh_token only for one of
\* type "refresh"; a token made by create_refresh_token never authenticates a
\* protected endpoint and one made by create_access_token is never accepted by
\* the refresh endpoint, whatever "type" the caller put into the token data:
\* both are answered 401.
C23_TypesNotInterchangeable ==
    tout # NoDecoded =>
        /\ tout.to = "get_current_user_from_token" =>
              /\ tout.payload # PyNoneValue
                    <=> (ValidNow /\ token.payload.type = "access")
              /\ made_by = "create_refresh_token" => tout.status = 401
        /\ tout.to = "refresh_access_token" =>
              /\ tout.payload # PyNoneValue
                    <=> (ValidNow /\ token.payload.type = "refresh")
              /\ made_by = "create_access_token" => tout.status = 401
        /\ tout.payload = PyNoneValue => tout.status = 401
        /\ tout.status = 200 => made_by \notin {"forger", "tamperer"}

\* a valid, unexpired refresh token of an active user, made from data whose
\* "type" entry says "access", was presented as bearer credentials and refused
C23_Witness ==
    /\ tout # NoDecoded
    /\ tout.to = "get_current_user_from_token"
    /\ made_by = "create_refresh_token"
    /\ tdata.type = "access"
    /\ ActiveUser(tdata.sub)
    /\ ValidNow
    /\ tout.status = 401

-----------------------------------------------------------------------------
(* Properties of the key endpoints, of registration and of deactivation *)

\* the rows of a set of keys without last_used_at, which authentication sets
\* on a key presented in X-API-Key
Rows(keys) ==
    {[secret |-> k.secret, user_id |-> k.user_id, is_active |-> k.is_active,
      expired |-> k.expired] : k \in keys}

C22_NotOwnedWitness ==
    /\ Answered
    /\ handled = "delete_api_key"
    /\ current_user = "u1"
    /\ areq.target = "k3"
    /\ aresp.status = 404
    /\ \E k \in api_keys : k.secret = "k3"

\* C25: get_api_key_usage for key K reports as total_requests the number of
\* extract requests authenticated with K that passed the size check, and
\* successful_requests + failed_requests = total_requests.
C25_UsageCountsKeyRequests ==
    (Answered /\ handled = "get_api_key_usage" /\ aresp.status = 200) =>
        /\ aresp.total_requests =
              Cardinality({i \in 1 .. Len(extracted_with) :
                              extracted_with[i] = areq.target})
        /\ aresp.successful_requests + aresp.failed_requests
              = aresp.total_requests

\* the endpoint functions behind get_current_admin_user
AdminHandlers ==
    {"list_all_users", "target lookup", "get_user_by_id", "update_user",
     "delete_user", "get_system_stats"}

\* C27: a user created through the public register endpoint never has the
\* admin role, and no request of such a user is authorized on an admin-only
\* endpoint.
C27_RegisteredNeverAdmin ==
    /\ \A u \in DOMAIN users \ DOMAIN InitialUsers : users[u].role # "admin"
    /\ handled \in AdminHandlers => current_user \in DOMAIN InitialUsers

\* the second half of C27 alone
C27_RegisteredNeverAuthorized ==
    handled \in AdminHandlers => current_user \in DOMAIN InitialUsers

\* user u was deactivated or deleted when the request arrived
Revoked(u) ==
    IF u \in DOMAIN before.users THEN ~before.users[u].is_active ELSE TRUE

\* the request presents a credential issued to user u: an access token, a
\* refresh token, or one of the keys of u
PresentsCredentialOf(u) ==
    \/ areq.bearer = u
    \/ areq.refresh_token = u
    \/ \E k \in InitialKeys : k.user_id = u /\ k.secret = areq.api_key

PresentsTokenOf(u) == areq.bearer = u \/ areq.refresh_token = u

\* C28: a request that presents an access token, a refresh token or an API
\* key of a user who is deactivated or deleted is answered 401 and reaches no
\* protected endpoint function.
C28_RevokedRejected ==
    \A u \in DOMAIN InitialUsers :
        (Answered /\ Revoked(u) /\ PresentsCredentialOf(u)) =>
            /\ aresp.status = 401
            /\ handled \in {"None", "refresh_access_token"}

\* C28 for access and refresh tokens only
C28_RevokedTokensRejected ==
    \A u \in DOMAIN InitialUsers :
        (Answered /\ Revoked(u) /\ PresentsTokenOf(u)) =>
            /\ aresp.status = 401
            /\ handled \in {"None", "refresh_access_token"}

-----------------------------------------------------------------------------
(* Properties of concurrent registration *)

\* C21: after any register requests, two concurrent ones for the same new
\* email among them, at most one user exists per email, and every request
\* that created no user was answered 400 "Email already registered".
C21_OneUserPerEmail ==
    /\ \A u, v \in DOMAIN users : users[u].email = users[v].email => u = v
    /\ \A i \in RegIds :
          reg[i].pc = "done" =>
              \/ /\ reg[i].response.status = 201
                 /\ NewUserId(i) \in DOMAIN users
              \/ /\ reg[i].response.status = 400
                 /\ reg[i].response.detail = "Email already registered"
                 /\ NewUserId(i) \notin DOMAIN users

\* the first half of C21 alone
C21_EmailsUnique ==
    \A u, v \in DOMAIN users : users[u].email = users[v].email => u = v

=============================================================================
